---------------------------- MODULE Spec2Model ----------------------------
(***************************************************************************)
(* A model of the speech-to-text desktop application (package stt_gui):    *)
(* the speaker manager, the transcription panel and its text widget, the   *)
(* notes panel, the start, stop and destroy of a session with its          *)
(* init_worker threads, the audio stream and the Vosk engine worker, the   *)
(* two queues and the poll loop of the main frame, the export, and the     *)
(* pause-based sentence segmenter.                                         *)
(*                                                                         *)
(* Conventions.                                                            *)
(*  - A Python str is a sequence of one-character strings; the empty       *)
(*    sequence also stands for None where the code tests `if not name`.    *)
(*  - Times are integers in milliseconds (the code uses float seconds);    *)
(*    NoTime stands for None.                                              *)
(*  - Colors are opaque TLA+ strings; NoColor stands for None.             *)
(*  - Main-thread handlers (Tk callbacks) run to completion: each is one   *)
(*    action.  Background threads take one step per action.                *)
(*  - AudioStream and VoskEngine objects live in the sequences             *)
(*    audio_streams and vosk_engines; a reference is an index, 0 is None.  *)
(***************************************************************************)
EXTENDS Integers, Sequences, FiniteSets, TLC

(***************************************************************************)
(* Bounds of the model.                                                    *)
(***************************************************************************)
MaxAdds == 9         \* speakers added in SpecPalette
MaxSpeakers == 3     \* speakers added in SpecRegistry
MaxLines == 2        \* lines put into the transcript widget in SpecTranscript
MaxNotes == 2        \* notes put into the notes widget in SpecNotes
MaxNoteLines == 1    \* lines put into the transcript widget in SpecNotes
MaxTick == 3         \* largest word time and threshold in SpecBoundary
MaxStarts == 1       \* init_worker threads launched in Spec, SpecHandle, SpecStop
MaxFrames == 2       \* audio blocks delivered in Spec
MaxSessionAdds == 2  \* speakers added in Spec
MaxSessionStarts == 2  \* init_worker threads launched in SpecSession
MaxExports == 1      \* Export clicks in SpecExport
MaxExportAdds == 1   \* speakers, sentences and notes added in SpecExport
MaxActiveAdds == 2   \* speakers added in SpecSetActive
MaxAudioStreams == 2 \* AudioStream objects constructed in SpecAudio
MaxHandled == 2      \* results given to _handle_stt_result in SpecHandle
MaxEditAdds == 3     \* speakers added in SpecEdit

(***************************************************************************)
(* Strings.                                                                *)
(***************************************************************************)
NoName == <<>>
NoColor == ""
NoTime == -1

\* Speaker names typed into the dialogs.
Names == { <<"A">>, <<"B">>, <<"C">> }
FewNames == { <<"A">>, <<"B">> }

\* str.strip() / \s of the re module, over the characters the model uses.
Whitespace == {" ", "\t", "\n"}

RECURSIVE LStrip(_)
LStrip(s) ==
    IF s # <<>> /\ Head(s) \in Whitespace THEN LStrip(Tail(s)) ELSE s

RECURSIVE RStrip(_)
RStrip(s) ==
    IF s # <<>> /\ s[Len(s)] \in Whitespace
    THEN RStrip(SubSeq(s, 1, Len(s) - 1))
    ELSE s

Strip(s) == RStrip(LStrip(s))

(***************************************************************************)
(* Text: timestamps, lines and the two parsers.                            *)
(***************************************************************************)
Digits == <<"0", "1", "2", "3", "4", "5", "6", "7", "8", "9">>
Digit(n) == Digits[n + 1]
TwoDigits(n) == << Digit((n \div 10) % 10), Digit(n % 10) >>
ThreeDigits(n) == << Digit((n \div 100) % 10), Digit((n \div 10) % 10), Digit(n % 10) >>

MsPerSecond == 1000
MsPerMinute == 60000
MsPerHour == 3600000
MsPerDay == 86400000

\* fmt(t): datetime.fromtimestamp(t).strftime("%H:%M:%S.%f")[:-3], the local
\* time of day to the millisecond (the local zone is taken to be UTC)
FmtTime(t) ==
    LET tod == t % MsPerDay
    IN TwoDigits(tod \div MsPerHour) \o <<":">>
       \o TwoDigits((tod % MsPerHour) \div MsPerMinute) \o <<":">>
       \o TwoDigits((tod % MsPerMinute) \div MsPerSecond) \o <<".">>
       \o ThreeDigits(tod % MsPerSecond)

UnknownStr == <<"u", "n", "k", "n", "o", "w", "n">>

\* The speaker name a TranscriptionPanel starts with
UnknownName == <<"U", "n", "k", "n", "o", "w", "n">>

\* TimestampedText._format_timestamp and TranscriptionPanel._format_timestamp
FormatTimestamp(start_time, end_time) ==
    IF start_time = NoTime \/ end_time = NoTime
    THEN UnknownStr
    ELSE FmtTime(start_time) \o <<"-">> \o FmtTime(end_time)

\* f"[{timestamp_str}] {speaker_name}: "
LinePrefix(timestamp_str, speaker_name) ==
    <<"[">> \o timestamp_str \o <<"]", " ">> \o speaker_name \o <<":", " ">>

\* The characters TimestampedText.insert_sentence puts into the widget
SentenceLine(speaker_name, start_time, end_time, text) ==
    LinePrefix(FormatTimestamp(start_time, end_time), speaker_name)
    \o text \o <<"\n">>

\* The characters NotesPanel.add_note puts into the widget
NoteBlock(speaker_name, timestamp_str, text) ==
    LinePrefix(timestamp_str, speaker_name) \o text \o <<"\n", "\n">>

\* Position of the first c in s at or after position from (0 if none)
RECURSIVE IndexFrom(_, _, _)
IndexFrom(s, c, from) ==
    IF from > Len(s) THEN 0
    ELSE IF s[from] = c THEN from
    ELSE IndexFrom(s, c, from + 1)

\* Length of the run of whitespace that starts at position from
RECURSIVE WsRun(_, _)
WsRun(s, from) ==
    IF from > Len(s) \/ s[from] \notin Whitespace THEN 0
    ELSE 1 + WsRun(s, from + 1)

\* str.splitlines()
RECURSIVE SplitLines(_)
SplitLines(s) ==
    IF s = <<>> THEN <<>>
    ELSE LET i == IndexFrom(s, "\n", 1)
         IN IF i = 0 THEN <<s>>
            ELSE <<SubSeq(s, 1, i - 1)>> \o SplitLines(SubSeq(s, i + 1, Len(s)))

\* re.match of \s+([^:]+):  right after a "]" at position close:
\* the spaces are taken greedily and one is given back when the colon
\* follows them at once; [^:]+ runs to the first colon.
HeaderRestMatches(line, close) ==
    LET w == WsRun(line, close + 1)
        colon == IndexFrom(line, ":", close + 1)
    IN /\ w >= 1
       /\ colon # 0
       /\ (colon > close + 1 + w \/ w >= 2)

\* re.match of \[(.*?)\]\s+([^:]+):\s*  at the start of line: the position
\* of the closing bracket (the first one after which the rest matches; the
\* dot does not match a newline), 0 when the pattern does not match
HeaderClose(line) ==
    LET ok == { i \in 2..Len(line) :
                  /\ line[i] = "]"
                  /\ \A k \in 2..(i - 1) : line[k] # "\n"
                  /\ HeaderRestMatches(line, i) }
    IN IF line = <<>> \/ line[1] # "[" \/ ok = {} THEN 0
       ELSE CHOOSE i \in ok : \A j \in ok : i <= j

\* Position of the last c in s (0 if none)
LastIndex(s, c) ==
    IF \E i \in 1..Len(s) : s[i] = c
    THEN CHOOSE i \in 1..Len(s) : s[i] = c /\ \A j \in (i + 1)..Len(s) : s[j] # c
    ELSE 0

\* As HeaderGroups, with the speaker group running to the last colon
HeaderGroupsGreedy(line) ==
    LET close == HeaderClose(line)
        w == WsRun(line, close + 1)
        colon == LastIndex(line, ":")
        first == IF colon > close + 1 + w THEN close + 1 + w ELSE close + w
    IN [ timestamp |-> SubSeq(line, 2, close - 1),
         speaker |-> SubSeq(line, first, colon - 1),
         colon |-> colon ]

\* The groups of a matching header: (1) the timestamp, (2) the speaker as
\* matched, and the position of the colon that ends it
HeaderGroups(line) ==
    LET close == HeaderClose(line)
        w == WsRun(line, close + 1)
        colon == IndexFrom(line, ":", close + 1)
        first == IF colon > close + 1 + w THEN close + 1 + w ELSE close + w
    IN [ timestamp |-> SubSeq(line, 2, close - 1),
         speaker |-> SubSeq(line, first, colon - 1),
         colon |-> colon ]

\* Group (3) of \[(.*?)\]\s+([^:]+):\s*(.*) : the rest of the line after the
\* colon and the spaces that follow it
HeaderTail(line) ==
    LET rest == LStrip(SubSeq(line, HeaderGroups(line).colon + 1, Len(line)))
        nl == IndexFrom(rest, "\n", 1)
    IN IF nl = 0 THEN rest ELSE SubSeq(rest, 1, nl - 1)

\* TranscriptionPanel.get_sentences on the widget's content
RECURSIVE ParseSentenceLines(_)
ParseSentenceLines(lines) ==
    IF lines = <<>> THEN <<>>
    ELSE LET line == Head(lines)
         IN IF Strip(line) = <<>> \/ HeaderClose(line) = 0
            THEN ParseSentenceLines(Tail(lines))
            ELSE << [ timestamp |-> HeaderGroups(line).timestamp,
                      speaker |-> Strip(HeaderGroups(line).speaker),
                      text |-> HeaderTail(line) ] >>
                 \o ParseSentenceLines(Tail(lines))

get_sentences(content) == ParseSentenceLines(SplitLines(content))

\* TranscriptionPanel._parse_line_header: <<timestamp, speaker>>, or
\* <<NoName, NoName>> for (None, None)
parse_line_header(line_text) ==
    IF HeaderClose(line_text) = 0 THEN << NoName, NoName >>
    ELSE << HeaderGroups(line_text).timestamp,
            Strip(HeaderGroups(line_text).speaker) >>

\* re.split(r"\n\s*\n", content): the separator starts at a newline and,
\* taken greedily, ends at the last newline of the whitespace that follows
RECURSIVE LastNewlineIn(_, _, _)
LastNewlineIn(s, from, to) ==
    IF to < from THEN 0
    ELSE IF s[to] = "\n" THEN to
    ELSE LastNewlineIn(s, from, to - 1)

RECURSIVE SplitBlocksFrom(_, _)
SplitBlocksFrom(s, from) ==
    LET i == IndexFrom(s, "\n", from)
    IN IF i = 0 THEN <<s>>
       ELSE LET j == LastNewlineIn(s, i + 1, i + WsRun(s, i + 1))
            IN IF j = 0 THEN SplitBlocksFrom(s, i + 1)
               ELSE <<SubSeq(s, 1, i - 1)>>
                    \o SplitBlocksFrom(SubSeq(s, j + 1, Len(s)), 1)

SplitBlocks(s) == SplitBlocksFrom(s, 1)

\* "\n".join(lines)
RECURSIVE JoinLines(_)
JoinLines(lines) ==
    IF lines = <<>> THEN <<>>
    ELSE IF Len(lines) = 1 THEN lines[1]
    ELSE lines[1] \o <<"\n">> \o JoinLines(Tail(lines))

RECURSIVE ParseNoteBlocks(_)
ParseNoteBlocks(blocks) ==
    IF blocks = <<>> THEN <<>>
    ELSE LET block == Strip(Head(blocks))
             lines == SplitLines(block)
         IN IF block = <<>> \/ lines = <<>> \/ HeaderClose(lines[1]) = 0
            THEN ParseNoteBlocks(Tail(blocks))
            ELSE << [ timestamp |-> HeaderGroups(lines[1]).timestamp,
                      speaker |-> Strip(HeaderGroups(lines[1]).speaker),
                      text |-> Strip(JoinLines(Tail(lines))) ] >>
                 \o ParseNoteBlocks(Tail(blocks))

\* NotesPanel.get_notes on the widget's content
get_notes(content) ==
    IF Strip(content) = <<>> THEN <<>>
    ELSE ParseNoteBlocks(SplitBlocks(Strip(content)))

(***************************************************************************)
(* SpeakerManager.                                                         *)
(***************************************************************************)
Palette ==
    << "#1f77b4", "#ff7f0e", "#2ca02c", "#d62728",
       "#9467bd", "#8c564b", "#e377c2", "#7f7f7f" >>
PaletteSize == 8

\* What the color chooser can return: a picked color, or NoColor on cancel.
PickedColors == {"#123456"}

VARIABLES
    speakers,        \* SpeakerManager._speakers: the ordered dict, as a
                     \* sequence of [name, color, button]; a button is named
                     \* by the speaker name its command was bound to
    active_speaker,  \* SpeakerManager._active_speaker (NoName: None)
    color_cycle,     \* position of SpeakerManager._color_cycle in Palette
    buttons,         \* names the speaker buttons created so far are bound to
    add_count,       \* number of speakers added so far (history)
    dialog,          \* title of the message box shown last ("" if none)
    notifications,   \* parity of the number of on_active_speaker_changed calls
    panel_speaker    \* TranscriptionPanel._active_speaker_name / _color

VARIABLES
    last_timestamp_str,  \* TranscriptionPanel._last_timestamp_str
    live_label,          \* text of TranscriptionPanel._live_label
    sentences_text,      \* content of the TimestampedText widget ("1.0" to "end-1c")
    speaker_tags,        \* its configured speaker tags: a set of [name, color]
    widget_lines         \* its lines in order, as they were put there: the
                         \* arguments of insert_sentence, or a line typed by the
                         \* user (history; tells which line carries which tag)

VARIABLES
    notes_text,      \* content of the notes ScrolledText ("1.0" to "end-1c")
    note_tags,       \* its configured note_speaker tags: a set of [name, color]
    note_log         \* the arguments of the add_note calls so far (history)

VARIABLES
    is_running,              \* SpeechToTextApp._is_running
    stream_start_wall_time,  \* SpeechToTextApp._stream_start_wall_time
    audio_streams,           \* the AudioStream objects constructed so far: each
                             \* one's [is_running, stream (an InputStream is
                             \* held), on_error (a handler was supplied)]
    audio_stream,            \* SpeechToTextApp._audio_stream: an index into
                             \* audio_streams (0: None)
    vosk_engines,            \* the VoskEngine objects constructed so far: each
                             \* one's [running, thread (index into workers, 0:
                             \* None), model_path]
    vosk_engine,             \* SpeechToTextApp._vosk_engine: an index into
                             \* vosk_engines (0: None)
    init_threads,            \* the init_worker threads launched so far: each one's
                             \* position in init_worker
    workers,                 \* the Thread objects made by VoskEngine.start so
                             \* far: each one's [pc (position in _run, or
                             \* "unstarted"), engine (its self)]
    wall_clock,              \* number of time.time() readings so far
    after_queue,             \* callbacks given to after(0, ...) and not yet run
    main_pc,                 \* what the main thread is doing: "idle" (in the Tk
                             \* event loop), "draining" (inside _poll_stt_results),
                             \* "joining" (inside VoskEngine.stop, from the Stop
                             \* button), "closing" (the same, from destroy) or
                             \* "destroyed" (the frame is gone)
    audio_queue,             \* number of frames in SpeechToTextApp._audio_queue
    result_queue,            \* SpeechToTextApp._result_queue, oldest first
    frames_captured,         \* number of audio blocks delivered so far (history)
    last_raw,                \* what the recognizer returned last, or that it
                             \* raised
    emitted,                 \* every result put on result_queue, in order (history)
    handled                  \* every result given to _handle_stt_result (history)

VARIABLES
    pause_threshold_sec,     \* SentenceSegmenter.pause_threshold_sec
    boundary_call            \* the last is_boundary call: its arguments and result

VARIABLES
    callback_exception,  \* the exception that escaped a main-thread call or a
                         \* capture callback last ("" if none), and the parity
                         \* of their number
    set_active_call,     \* the last SpeakerManager.set_active_speaker call made
                         \* from outside: its argument, what it raised ("" if
                         \* nothing) and the parity of the number of calls
    export_file,         \* content of the file chosen in the export dialog
    export_calls,        \* number of _on_export_clicked calls so far (history)
    write_attempts,      \* number of open(file_path, "w") calls so far (history)
    on_error_calls,      \* number of calls of an AudioStream's on_error handler
                         \* so far (history)
    last_edit,           \* the last double click on a speaker button that was
                         \* followed into _edit_speaker: the name the button
                         \* is bound to, what the two dialogs returned and the
                         \* parity of the number of such calls (history)
    last_callback,       \* the last call of AudioStream._callback: the stream
                         \* it was made on (0: none yet) and whether the
                         \* conversion or the put raised (history)
    model_path           \* SpeechToTextApp._model_path

registryVars ==
    << speakers, active_speaker, color_cycle, buttons, add_count, dialog,
       notifications, panel_speaker >>

widgetVars == << sentences_text, speaker_tags, widget_lines >>

panelVars == << last_timestamp_str, live_label, widgetVars >>

notesVars == << notes_text, note_tags, note_log >>

appVars ==
    << is_running, stream_start_wall_time, audio_stream, audio_streams,
       vosk_engine, vosk_engines, init_threads, after_queue, main_pc >>

engineVars ==
    << workers, audio_queue, result_queue, frames_captured, last_raw, emitted >>

sessionVars == << appVars, engineVars, handled, wall_clock >>

segmenterVars == << pause_threshold_sec, boundary_call >>

callVars ==
    << set_active_call, export_file, export_calls, write_attempts, on_error_calls,
       last_callback, last_edit, model_path >>

\* everything but the speaker manager and the panel's speaker context
restVars ==
    << panelVars, notesVars, sessionVars, segmenterVars, callVars,
       callback_exception >>

vars ==
    << registryVars, panelVars, notesVars, sessionVars, segmenterVars, callVars,
       callback_exception >>

\* messagebox.show*: the box is modal, so `dialog` records the title of the
\* last box shown and the parity of the number of boxes shown so far
ShowDialog(title) == dialog' = [title |-> title, shown |-> 1 - dialog.shown]

\* next(self._color_cycle): the position after the one just handed out
next_color_cycle_early(c) == (c % (PaletteSize - 1)) + 1

next_color_cycle(c) == (c % PaletteSize) + 1

\* dict helpers over the ordered sequence of entries
HasSpeaker(d, name) == \E i \in 1..Len(d) : d[i].name = name
EntryOf(d, name) == d[CHOOSE i \in 1..Len(d) : d[i].name = name]
DictDel(d, name) == SelectSeq(d, LAMBDA e : e.name # name)
\* d[name] = entry: an existing key keeps its position, a new key goes last
DictSet(d, entry) ==
    IF HasSpeaker(d, entry.name)
    THEN [i \in 1..Len(d) |-> IF d[i].name = entry.name THEN entry ELSE d[i]]
    ELSE Append(d, entry)

get_speaker_color(d, name) ==
    IF HasSpeaker(d, name) THEN EntryOf(d, name).color ELSE "#000000"

get_speakers(d) == [i \in 1..Len(d) |-> d[i].name]

get_all_speakers(d) == [i \in 1..Len(d) |-> [name |-> d[i].name, color |-> d[i].color]]

\* TranscriptionPanel.update_active_speaker, reached through
\* SpeechToTextApp._on_active_speaker_changed
update_active_speaker(name, color) ==
    /\ panel_speaker' = [name |-> name, color |-> color]
    /\ notifications' = 1 - notifications

\* SpeakerManager._set_active_speaker on the dict d (the dict may have been
\* changed earlier in the same handler)
SetActiveSpeakerIn(d, name) ==
    IF ~HasSpeaker(d, name)
    THEN UNCHANGED << active_speaker, panel_speaker, notifications >>
    ELSE /\ active_speaker' = name
         /\ update_active_speaker(name, get_speaker_color(d, name))

\* SpeakerManager._add_speaker
AddSpeaker(name, color) ==
    /\ speakers' = DictSet(speakers, [name |-> name, color |-> color, button |-> name])
    /\ buttons' = buttons \cup {name}
    /\ SetActiveSpeakerIn(speakers', name)

\* As _on_add_speaker_clicked, with the color taken before the duplicate check
OnAddSpeakerClickedEager(name) ==
    /\ main_pc = "idle"
    /\ IF name = NoName
       THEN UNCHANGED registryVars
       ELSE IF HasSpeaker(speakers, name)
       THEN /\ ShowDialog("Duplicate Speaker")
            /\ color_cycle' = next_color_cycle(color_cycle)
            /\ UNCHANGED << speakers, active_speaker, buttons,
                            add_count, notifications, panel_speaker >>
       ELSE /\ color_cycle' = next_color_cycle(color_cycle)
            /\ add_count' = add_count + 1
            /\ AddSpeaker(name, Palette[color_cycle])
            /\ UNCHANGED dialog
    /\ UNCHANGED restVars

\* SpeakerManager._on_add_speaker_clicked: the dialog returned `name`
OnAddSpeakerClicked(name) ==
    /\ main_pc = "idle"
    /\ IF name = NoName
       THEN UNCHANGED registryVars
       ELSE IF HasSpeaker(speakers, name)
       THEN /\ ShowDialog("Duplicate Speaker")
            /\ UNCHANGED << speakers, active_speaker, color_cycle, buttons,
                            add_count, notifications, panel_speaker >>
       ELSE /\ color_cycle' = next_color_cycle(color_cycle)
            /\ add_count' = add_count + 1
            /\ AddSpeaker(name, Palette[color_cycle])
            /\ UNCHANGED dialog
    /\ UNCHANGED restVars

\* SpeakerManager._on_add_speaker_clicked_with_name
OnAddSpeakerClickedWithName(name) ==
    /\ main_pc = "idle"
    /\ IF HasSpeaker(speakers, name)
       THEN /\ ShowDialog("Duplicate Speaker")
            /\ UNCHANGED << speakers, active_speaker, color_cycle, buttons,
                            add_count, notifications, panel_speaker >>
       ELSE /\ color_cycle' = next_color_cycle(color_cycle)
            /\ add_count' = add_count + 1
            /\ AddSpeaker(name, Palette[color_cycle])
            /\ UNCHANGED dialog
    /\ UNCHANGED restVars

\* A click on the speaker button bound to `name`
ClickSpeaker(name) ==
    /\ main_pc = "idle"
    /\ name \in buttons
    /\ SetActiveSpeakerIn(speakers, name)
    /\ UNCHANGED << speakers, color_cycle, buttons, add_count, dialog >>
    /\ UNCHANGED restVars

\* SpeakerManager.set_active_speaker, called from outside the panel with
\* any name; it returns without raising whether the name is registered or not
SetActiveSpeakerCall(name) ==
    /\ main_pc = "idle"
    /\ SetActiveSpeakerIn(speakers, name)
    /\ set_active_call' =
          [name |-> name, raised |-> "", calls |-> 1 - set_active_call.calls]
    /\ UNCHANGED << speakers, color_cycle, buttons, add_count, dialog >>
    /\ UNCHANGED << panelVars, notesVars, sessionVars, segmenterVars, export_file,
                    export_calls, write_attempts, on_error_calls, last_callback,
                    last_edit, model_path, callback_exception >>

\* As _edit_speaker, without the update of the active speaker's name
EditSpeakerKeepsActive(old_name, answer, picked) ==
    /\ main_pc = "idle"
    /\ old_name \in buttons
    /\ UNCHANGED restVars
    /\ IF ~HasSpeaker(speakers, old_name)
       THEN UNCHANGED registryVars
       ELSE LET data == EntryOf(speakers, old_name)
                new_name == IF answer = NoName THEN old_name ELSE answer
                new_color == IF picked = NoColor THEN data.color ELSE picked
            IN /\ speakers' =
                     DictSet(DictDel(speakers, old_name),
                             [name |-> new_name, color |-> new_color,
                              button |-> data.button])
               /\ update_active_speaker(new_name, new_color)
               /\ UNCHANGED << active_speaker, color_cycle, buttons, add_count,
                               dialog >>

\* As _edit_speaker, refusing a new name that another speaker has
edit_speaker_refusing(old_name, answer, picked) ==
    IF ~HasSpeaker(speakers, old_name)
    THEN UNCHANGED registryVars
    ELSE LET data == EntryOf(speakers, old_name)
             new_name == IF answer = NoName THEN old_name ELSE answer
             new_color == IF picked = NoColor THEN data.color ELSE picked
         IN IF new_name # old_name /\ HasSpeaker(speakers, new_name)
            THEN /\ ShowDialog("Duplicate Speaker")
                 /\ UNCHANGED << speakers, active_speaker, color_cycle, buttons,
                                 add_count, notifications, panel_speaker >>
            ELSE /\ speakers' =
                       DictSet(DictDel(speakers, old_name),
                               [name |-> new_name, color |-> new_color,
                                button |-> data.button])
                 /\ active_speaker' =
                       IF active_speaker = old_name THEN new_name
                       ELSE active_speaker
                 /\ update_active_speaker(new_name, new_color)
                 /\ UNCHANGED << color_cycle, buttons, add_count, dialog >>

\* The body of SpeakerManager._edit_speaker; the dialogs returned `answer`
\* and `picked`
edit_speaker(old_name, answer, picked) ==
    IF ~HasSpeaker(speakers, old_name)
    THEN UNCHANGED registryVars
    ELSE LET data == EntryOf(speakers, old_name)
             new_name == IF answer = NoName THEN old_name ELSE answer
             new_color == IF picked = NoColor THEN data.color ELSE picked
         IN /\ speakers' =
                  DictSet(DictDel(speakers, old_name),
                          [name |-> new_name, color |-> new_color,
                           button |-> data.button])
            /\ active_speaker' =
                  IF active_speaker = old_name THEN new_name ELSE active_speaker
            /\ update_active_speaker(new_name, new_color)
            /\ UNCHANGED << color_cycle, buttons, add_count, dialog >>

\* SpeakerManager._edit_speaker: a double click on the button bound to
\* old_name
EditSpeaker(old_name, answer, picked) ==
    /\ main_pc = "idle"
    /\ old_name \in buttons
    /\ UNCHANGED restVars
    /\ edit_speaker(old_name, answer, picked)

\* The same double click, with the dialogs' answers kept in last_edit
EditSpeakerCall(old_name, answer, picked) ==
    /\ main_pc = "idle"
    /\ old_name \in buttons
    /\ edit_speaker(old_name, answer, picked)
    /\ last_edit' = [old_name |-> old_name, answer |-> answer, picked |-> picked,
                     calls |-> 1 - last_edit.calls]
    /\ UNCHANGED << panelVars, notesVars, sessionVars, segmenterVars,
                    set_active_call, export_file, export_calls, write_attempts,
                    on_error_calls, last_callback, model_path,
                    callback_exception >>

(***************************************************************************)
(* TranscriptionPanel and its TimestampedText widget.                      *)
(***************************************************************************)
HasTag(tags, name) == \E t \in tags : t.name = name
TagColor(tags, name) == (CHOOSE t \in tags : t.name = name).color
\* tag_configure only when the tag does not exist yet
ConfigureOnce(tags, name, color) ==
    IF HasTag(tags, name) THEN tags ELSE tags \cup {[name |-> name, color |-> color]}

\* TranscriptionPanel.update_live_partial
update_live_partial(text, start_time, end_time) ==
    live_label' =
        IF text = <<>> THEN <<>>
        ELSE IF start_time = NoTime \/ end_time = NoTime THEN text
        ELSE <<"[">> \o FormatTimestamp(start_time, end_time) \o <<"]", " ">> \o text

\* TimestampedText.insert_sentence
insert_sentence(speaker_name, speaker_color, start_time, end_time, text) ==
    /\ sentences_text' =
          sentences_text \o SentenceLine(speaker_name, start_time, end_time, text)
    /\ speaker_tags' = ConfigureOnce(speaker_tags, speaker_name, speaker_color)
    /\ widget_lines' =
          Append(widget_lines,
                 [ typed |-> FALSE, speaker_name |-> speaker_name,
                   speaker_color |-> speaker_color, start_time |-> start_time,
                   end_time |-> end_time, text |-> text ])

\* TranscriptionPanel.add_final_sentence
add_final_sentence(text, start_time, end_time) ==
    /\ last_timestamp_str' = FormatTimestamp(start_time, end_time)
    /\ insert_sentence(panel_speaker.name, panel_speaker.color,
                       start_time, end_time, text)

\* The user types a line of his own at the end of the transcript widget
UserTypesLine(line) ==
    /\ sentences_text' = sentences_text \o line \o <<"\n">>
    /\ widget_lines' =
          Append(widget_lines,
                 [ typed |-> TRUE, speaker_name |-> NoName, speaker_color |-> NoColor,
                   start_time |-> NoTime, end_time |-> NoTime, text |-> line ])
    /\ UNCHANGED << speaker_tags, last_timestamp_str, live_label >>

(***************************************************************************)
(* NotesPanel.                                                             *)
(***************************************************************************)
\* NotesPanel.add_note
add_note(speaker_name, speaker_color, timestamp_str, text) ==
    /\ notes_text' = notes_text \o NoteBlock(speaker_name, timestamp_str, text)
    /\ note_tags' = ConfigureOnce(note_tags, speaker_name, speaker_color)
    /\ note_log' =
          Append(note_log,
                 [ speaker_name |-> speaker_name, speaker_color |-> speaker_color,
                   timestamp_str |-> timestamp_str, text |-> text ])

PlaceholderText ==
    << "(", "e", "d", "i", "t", " ", "t", "h", "i", "s", " ",
       "n", "o", "t", "e", ".", ".", ".", ")" >>

\* SpeechToTextApp._on_note_created
on_note_created(speaker_name, speaker_color, timestamp_str) ==
    add_note(speaker_name, speaker_color, timestamp_str, PlaceholderText)

\* TranscriptionPanel._get_speaker_color_for_line: the characters of the
\* line, its newline included, are searched for the tag speaker_<name>;
\* line_no > Len(widget_lines) is the empty line after the last newline
get_speaker_color_for_line(line_no, speaker_name) ==
    IF /\ line_no <= Len(widget_lines)
       /\ ~widget_lines[line_no].typed
       /\ widget_lines[line_no].speaker_name = speaker_name
       /\ HasTag(speaker_tags, speaker_name)
       /\ TagColor(speaker_tags, speaker_name) # NoColor
    THEN TagColor(speaker_tags, speaker_name)
    ELSE "#000000"

\* TranscriptionPanel._on_right_click on line line_no of the widget
OnRightClick(line_no) ==
    /\ line_no \in 1..(Len(widget_lines) + 1)
    /\ LET lines == SplitLines(sentences_text)
           line_text == IF line_no <= Len(lines) THEN lines[line_no] ELSE <<>>
           header == parse_line_header(line_text)
           matched == HeaderClose(line_text) # 0
           timestamp_str == IF matched THEN header[1] ELSE last_timestamp_str
           speaker_name == IF matched THEN header[2] ELSE panel_speaker.name
       IN on_note_created(speaker_name,
                          get_speaker_color_for_line(line_no, speaker_name),
                          timestamp_str)
    /\ UNCHANGED << registryVars, panelVars >>

(***************************************************************************)
(* SentenceSegmenter.                                                      *)
(***************************************************************************)
\* As is_boundary, with a strict comparison
is_boundary_strict(threshold, prev_end, next_start) ==
    LET gap == next_start - prev_end
    IN gap > threshold

\* SentenceSegmenter.is_boundary
is_boundary(threshold, prev_end, next_start) ==
    LET gap == next_start - prev_end
    IN gap >= threshold

\* settings.SENTENCE_PAUSE_THRESHOLD_SEC, in ticks of one second
SENTENCE_PAUSE_THRESHOLD_SEC == 1

\* SentenceSegmenter.__init__
NewSegmenter(threshold) ==
    /\ pause_threshold_sec' = threshold
    /\ boundary_call' = [made |-> FALSE, prev_end |-> 0, next_start |-> 0,
                         result |-> FALSE]
    /\ UNCHANGED << registryVars, panelVars, notesVars, sessionVars, callVars,
                    callback_exception >>

\* SentenceSegmenter.is_boundary, called on the segmenter
IsBoundaryCall(prev_end, next_start) ==
    /\ boundary_call' =
          [made |-> TRUE, prev_end |-> prev_end, next_start |-> next_start,
           result |-> is_boundary(pause_threshold_sec, prev_end, next_start)]
    /\ UNCHANGED pause_threshold_sec
    /\ UNCHANGED << registryVars, panelVars, notesVars, sessionVars, callVars,
                    callback_exception >>

(***************************************************************************)
(* SpeechToTextApp: start/stop, the init_worker thread, AudioStream,       *)
(* VoskEngine and the poll loop.                                           *)
(***************************************************************************)
\* The model paths: DEFAULT_VOSK_MODEL_PATH and another directory under
\* DEFAULT_MODELS_DIR
DEFAULT_VOSK_MODEL_PATH == "models/vosk-model-en-us-0.22"
ModelPaths == { DEFAULT_VOSK_MODEL_PATH, "models/vosk-model-small-en-us-0.15" }

\* No file has been written
NoFile == [written |-> "nothing"]

\* STTResult
STTResult(type, text, start_time, end_time) ==
    [type |-> type, text |-> text, start_time |-> start_time, end_time |-> end_time]

\* What the recognizer can return: PartialResult() gives "partial";
\* Result() and FinalResult() give "text" and, with it, the list of words
\* ("result"), of which only the first start and the last end are read
RawPartial(text) ==
    [kind |-> "partial", text |-> text, has_words |-> FALSE, start |-> 0, end |-> 0]
RawFinal(text, has_words, start, end) ==
    [kind |-> "final", text |-> text, has_words |-> has_words,
     start |-> start, end |-> end]
NoRaw == [kind |-> "none", text |-> <<>>, has_words |-> FALSE, start |-> 0, end |-> 0]
\* The recognizer raised instead of returning
RaisedRaw ==
    [kind |-> "raised", text |-> <<>>, has_words |-> FALSE, start |-> 0, end |-> 0]

RawPartials == { RawPartial(<<>>), RawPartial(<<"h", " ">>) }
RawFinals ==
    { RawFinal(<<" ">>, FALSE, 0, 0),
      RawFinal(<<" ", "h", "i">>, TRUE, 0, 1200),
      RawFinal(<<"o", "k">>, FALSE, 0, 0) }

\* time.time() at the n-th reading of the clock, in milliseconds of the day
BaseTime == 12 * MsPerHour
TimeAt(n) == BaseTime + n * MsPerMinute

\* As _handle_final_result, without the test for an empty text
handle_final_result_unfiltered(raw) ==
    LET text == Strip(raw.text)
        result == IF raw.has_words
                  THEN STTResult("final", text, raw.start, raw.end)
                  ELSE STTResult("final", text, NoTime, NoTime)
    IN /\ result_queue' = Append(result_queue, result)
       /\ emitted' = Append(emitted, result)

\* VoskEngine._handle_final_result
handle_final_result(raw) ==
    LET text == Strip(raw.text)
        result == IF raw.has_words
                  THEN STTResult("final", text, raw.start, raw.end)
                  ELSE STTResult("final", text, NoTime, NoTime)
    IN IF text = <<>>
       THEN UNCHANGED << result_queue, emitted >>
       ELSE /\ result_queue' = Append(result_queue, result)
            /\ emitted' = Append(emitted, result)

\* VoskEngine._handle_partial_result
handle_partial_result(raw) ==
    LET text == Strip(raw.text)
        result == STTResult("partial", text, NoTime, NoTime)
    IN IF text = <<>>
       THEN UNCHANGED << result_queue, emitted >>
       ELSE /\ result_queue' = Append(result_queue, result)
            /\ emitted' = Append(emitted, result)

WaitStarting ==
    << "W", "a", "i", "t", ",", " ", "s", "t", "a", "r", "t", "i", "n", "g",
       ".", ".", "." >>

\* ModelManager._select_model, with SpeechToTextApp._on_model_selected as
\* its callback: the user picks `path` in the combobox; exists tells
\* whether the directory is still there
OnModelSelected(path, exists) ==
    /\ main_pc = "idle"
    /\ IF exists
       THEN /\ model_path' = path
            /\ UNCHANGED dialog
       ELSE /\ ShowDialog("Model Not Found")
            /\ UNCHANGED model_path
    /\ UNCHANGED << speakers, active_speaker, color_cycle, buttons, add_count,
                    notifications, panel_speaker, panelVars, notesVars,
                    sessionVars, segmenterVars, set_active_call, export_file,
                    export_calls, write_attempts, on_error_calls, last_callback,
                    last_edit, callback_exception >>

\* As _start_transcription, with the initialization thread launched before
\* the model path is checked
StartTranscriptionEager(model_exists) ==
    IF speakers = <<>>
    THEN /\ ShowDialog("No speakers")
         /\ UNCHANGED << speakers, active_speaker, color_cycle, buttons,
                         add_count, notifications, panel_speaker >>
         /\ UNCHANGED << live_label, init_threads >>
    ELSE /\ IF active_speaker = NoName
            THEN SetActiveSpeakerIn(speakers, speakers[1].name)
            ELSE UNCHANGED << active_speaker, panel_speaker, notifications >>
         /\ UNCHANGED << speakers, color_cycle, buttons, add_count >>
         /\ update_live_partial(WaitStarting, NoTime, NoTime)
         /\ init_threads' = Append(init_threads, "check_audio")
         /\ IF ~model_exists
            THEN ShowDialog("Vosk Model Missing")
            ELSE UNCHANGED dialog

\* SpeechToTextApp._start_transcription; model_exists tells whether the
\* selected model path exists
StartTranscription(model_exists) ==
    IF speakers = <<>>
    THEN /\ ShowDialog("No speakers")
         /\ UNCHANGED << speakers, active_speaker, color_cycle, buttons,
                         add_count, notifications, panel_speaker >>
         /\ UNCHANGED << live_label, init_threads >>
    ELSE /\ IF active_speaker = NoName
            THEN SetActiveSpeakerIn(speakers, speakers[1].name)
            ELSE UNCHANGED << active_speaker, panel_speaker, notifications >>
         /\ UNCHANGED << speakers, color_cycle, buttons, add_count >>
         /\ IF ~model_exists
            THEN /\ ShowDialog("Vosk Model Missing")
                 /\ UNCHANGED << live_label, init_threads >>
            ELSE /\ update_live_partial(WaitStarting, NoTime, NoTime)
                 /\ init_threads' = Append(init_threads, "check_audio")
                 /\ UNCHANGED dialog

\* AudioStream.stop, under the stream's lock
audio_stream_stop(a) ==
    IF ~a.is_running THEN a
    ELSE [a EXCEPT !.stream = FALSE, !.is_running = FALSE]

\* An exception escapes a handler or a call made on the main thread
RaiseInCallback(name) ==
    callback_exception' = [name |-> name, count |-> 1 - callback_exception.count]

\* SpeechToTextApp._stop_transcription up to the join inside
\* VoskEngine.stop; without a thread to join it runs to its end, and the
\* join of a Thread that was never started raises RuntimeError.
\* joining, finished: where the main thread is during the join and after
\* the caller's last statement
StopTranscription(joining, finished) ==
    /\ audio_streams' =
          IF audio_stream = 0 THEN audio_streams
          ELSE [audio_streams EXCEPT
                  ![audio_stream] = audio_stream_stop(audio_streams[audio_stream])]
    /\ vosk_engines' =
          IF vosk_engine = 0 THEN vosk_engines
          ELSE [vosk_engines EXCEPT ![vosk_engine].running = FALSE]
    /\ IF vosk_engine # 0 /\ vosk_engines[vosk_engine].thread # 0
       THEN IF workers[vosk_engines[vosk_engine].thread].pc = "unstarted"
            THEN /\ RaiseInCallback("RuntimeError")
                 /\ UNCHANGED << is_running, stream_start_wall_time, main_pc >>
            ELSE /\ main_pc' = joining
                 /\ UNCHANGED << is_running, stream_start_wall_time,
                                 callback_exception >>
       ELSE /\ is_running' = FALSE
            /\ stream_start_wall_time' = NoTime
            /\ main_pc' = finished
            /\ UNCHANGED callback_exception

\* SpeechToTextApp._on_start_stop_clicked
OnStartStopClicked(model_exists) ==
    /\ main_pc = "idle"
    /\ IF ~is_running
       THEN /\ StartTranscription(model_exists)
            /\ UNCHANGED << is_running, stream_start_wall_time, audio_streams,
                            vosk_engines, main_pc, callback_exception >>
       ELSE /\ StopTranscription("joining", "idle")
            /\ UNCHANGED << registryVars, live_label, init_threads >>
    /\ UNCHANGED << last_timestamp_str, widgetVars, notesVars, audio_stream,
                    vosk_engine, after_queue, engineVars, handled, wall_clock,
                    segmenterVars, callVars >>

\* SpeechToTextApp.destroy: _stop_transcription, then the frame is destroyed
Destroy ==
    /\ main_pc = "idle"
    /\ StopTranscription("closing", "destroyed")
    /\ UNCHANGED << registryVars, panelVars, notesVars, audio_stream,
                    vosk_engine, init_threads, after_queue, engineVars, handled,
                    wall_clock, segmenterVars, callVars >>

\* thread.join(timeout=1.0) returns, the thread terminated or not, and
\* _stop_transcription runs to its end
JoinReturns ==
    /\ main_pc \in {"joining", "closing"}
    /\ is_running' = FALSE
    /\ stream_start_wall_time' = NoTime
    /\ main_pc' = IF main_pc = "joining" THEN "idle" ELSE "destroyed"
    /\ UNCHANGED << registryVars, panelVars, notesVars, audio_stream, audio_streams,
                    vosk_engine, vosk_engines, init_threads, after_queue,
                    engineVars, handled, wall_clock, segmenterVars,
                    callVars, callback_exception >>

\* One step of the i-th init_worker thread.  failure: the step raises (in
\* VoskEngine.start it is Thread.start that raises, after _running and
\* _thread were set); held: a failing AudioStream.start had already stored
\* the InputStream
InitWorkerStep(i, failure, held) ==
    LET pc == init_threads[i]
        goto(next) == init_threads' = [init_threads EXCEPT ![i] = next]
    IN
    /\ pc # "done"
    /\ CASE pc = "check_audio" ->
              /\ ~failure /\ ~held
              /\ goto(IF audio_stream = 0 THEN "new_audio" ELSE "check_engine")
              /\ UNCHANGED << is_running, stream_start_wall_time, audio_stream,
                              audio_streams, vosk_engine, vosk_engines,
                              after_queue, workers, wall_clock >>
         [] pc = "new_audio" ->
              /\ ~failure /\ ~held
              /\ audio_streams' =
                    Append(audio_streams,
                           [is_running |-> FALSE, stream |-> FALSE,
                            on_error |-> FALSE])
              /\ audio_stream' = Len(audio_streams) + 1
              /\ goto("check_engine")
              /\ UNCHANGED << is_running, stream_start_wall_time, vosk_engine,
                              vosk_engines, after_queue, workers, wall_clock >>
         [] pc = "check_engine" ->
              /\ ~failure /\ ~held
              /\ goto(IF vosk_engine = 0 THEN "new_engine" ELSE "record_time")
              /\ UNCHANGED << is_running, stream_start_wall_time, audio_stream,
                              audio_streams, vosk_engine, vosk_engines,
                              after_queue, workers, wall_clock >>
         [] pc = "new_engine" ->
              /\ ~held
              /\ IF failure
                 THEN /\ goto("failed")
                      /\ UNCHANGED << vosk_engine, vosk_engines >>
                 ELSE /\ vosk_engines' =
                            Append(vosk_engines,
                                   [running |-> FALSE, thread |-> 0,
                                    model_path |-> model_path])
                      /\ vosk_engine' = Len(vosk_engines) + 1
                      /\ goto("record_time")
              /\ UNCHANGED << is_running, stream_start_wall_time, audio_stream,
                              audio_streams, after_queue, workers, wall_clock >>
         [] pc = "record_time" ->
              /\ ~failure /\ ~held
              /\ stream_start_wall_time' = TimeAt(wall_clock)
              /\ wall_clock' = wall_clock + 1
              /\ goto("start_audio")
              /\ UNCHANGED << is_running, audio_stream, audio_streams, vosk_engine,
                              vosk_engines, after_queue, workers >>
         [] pc = "start_audio" ->
              /\ IF audio_streams[audio_stream].is_running
                 THEN /\ ~failure /\ ~held
                      /\ goto("start_engine")
                      /\ UNCHANGED audio_streams
                 ELSE IF failure
                 THEN /\ goto("failed")
                      /\ audio_streams' =
                            [audio_streams EXCEPT ![audio_stream].stream =
                                 (held \/ audio_streams[audio_stream].stream)]
                 ELSE /\ ~held
                      /\ goto("start_engine")
                      /\ audio_streams' =
                            [audio_streams EXCEPT
                               ![audio_stream].is_running = TRUE,
                               ![audio_stream].stream = TRUE]
              /\ UNCHANGED << is_running, stream_start_wall_time, audio_stream,
                              vosk_engine, vosk_engines, after_queue, workers,
                              wall_clock >>
         [] pc = "start_engine" ->
              /\ ~held
              /\ workers' =
                    Append(workers, [pc |-> IF failure THEN "unstarted" ELSE "check",
                                     engine |-> vosk_engine])
              /\ vosk_engines' =
                    [vosk_engines EXCEPT
                       ![vosk_engine].running = TRUE,
                       ![vosk_engine].thread = Len(workers) + 1]
              /\ goto(IF failure THEN "failed" ELSE "set_running")
              /\ UNCHANGED << is_running, stream_start_wall_time, audio_stream,
                              audio_streams, vosk_engine, after_queue, wall_clock >>
         [] pc = "set_running" ->
              /\ ~failure /\ ~held
              /\ is_running' = TRUE
              /\ after_queue' = Append(after_queue, "on_ready")
              /\ goto("done")
              /\ UNCHANGED << stream_start_wall_time, audio_stream, audio_streams,
                              vosk_engine, vosk_engines, workers, wall_clock >>
         [] pc = "failed" ->
              /\ ~failure /\ ~held
              /\ is_running' = FALSE
              /\ stream_start_wall_time' = NoTime
              /\ after_queue' = Append(after_queue, "on_error")
              /\ goto("done")
              /\ UNCHANGED << audio_stream, audio_streams, vosk_engine,
                              vosk_engines, workers, wall_clock >>
    /\ UNCHANGED << registryVars, panelVars, notesVars, main_pc, audio_queue,
                    result_queue, frames_captured, last_raw, emitted, handled,
                    segmenterVars,
                    callVars, callback_exception >>

\* A callback given to after(0, ...) runs on the main thread: on_ready or
\* on_error of init_worker
AfterCallback ==
    /\ main_pc = "idle"
    /\ after_queue # <<>>
    /\ after_queue' = Tail(after_queue)
    /\ update_live_partial(<<>>, NoTime, NoTime)
    /\ IF Head(after_queue) = "on_error"
       THEN ShowDialog("Error starting transcription")
       ELSE UNCHANGED dialog
    /\ UNCHANGED << speakers, active_speaker, color_cycle, buttons, add_count,
                    notifications, panel_speaker, last_timestamp_str, widgetVars,
                    notesVars, is_running, stream_start_wall_time, audio_stream,
                    audio_streams, vosk_engine, vosk_engines, init_threads,
                    main_pc, engineVars, handled, wall_clock, segmenterVars,
                    callVars, callback_exception >>

\* queue.Queue(): constructed without a maxsize, which is maxsize 0
QUEUE_MAXSIZE == 0

\* What put_nowait tests before it raises queue.Full: a maxsize of 0 or
\* less means no limit
QueueFull(qsize, maxsize) == maxsize > 0 /\ qsize >= maxsize

\* As _callback, without the try statement around the conversion and the put
AudioCallbackUnguarded(s, failure) ==
    /\ s \in 1..Len(audio_streams)
    /\ audio_streams[s].is_running
    /\ frames_captured < MaxFrames
    /\ frames_captured' = frames_captured + 1
    /\ last_callback' =
          [stream |-> s,
           failed |-> (failure \/ QueueFull(audio_queue, QUEUE_MAXSIZE))]
    /\ IF failure \/ QueueFull(audio_queue, QUEUE_MAXSIZE)
       THEN /\ RaiseInCallback("Exception")
            /\ UNCHANGED audio_queue
       ELSE /\ audio_queue' = audio_queue + 1
            /\ UNCHANGED callback_exception
    /\ UNCHANGED << registryVars, panelVars, notesVars, appVars, workers,
                    result_queue, last_raw, emitted, handled, wall_clock,
                    segmenterVars, set_active_call, export_file, export_calls,
                    write_attempts, on_error_calls, last_edit, model_path >>

\* AudioStream._callback: the started device delivers a block to the s-th
\* stream.  failure: indata.tobytes() or put_nowait raises an Exception
\* (queue.Full is the one put_nowait raises by itself); it is caught, and
\* given to on_error when the stream has one
AudioCallback(s, failure) ==
    /\ s \in 1..Len(audio_streams)
    /\ audio_streams[s].is_running
    /\ frames_captured < MaxFrames
    /\ frames_captured' = frames_captured + 1
    /\ last_callback' =
          [stream |-> s,
           failed |-> (failure \/ QueueFull(audio_queue, QUEUE_MAXSIZE))]
    /\ IF failure \/ QueueFull(audio_queue, QUEUE_MAXSIZE)
       THEN /\ on_error_calls' =
                  IF audio_streams[s].on_error THEN on_error_calls + 1
                  ELSE on_error_calls
            /\ UNCHANGED audio_queue
       ELSE /\ audio_queue' = audio_queue + 1
            /\ UNCHANGED on_error_calls
    /\ UNCHANGED << registryVars, panelVars, notesVars, appVars, workers,
                    result_queue, last_raw, emitted, handled, wall_clock,
                    segmenterVars, set_active_call, export_file, export_calls,
                    write_attempts, last_edit, model_path, callback_exception >>

\* AudioStream.__init__, with or without an on_error handler
NewAudioStream(on_error) ==
    /\ audio_streams' =
          Append(audio_streams,
                 [is_running |-> FALSE, stream |-> FALSE, on_error |-> on_error])
    /\ UNCHANGED << registryVars, panelVars, notesVars, is_running,
                    stream_start_wall_time, audio_stream, vosk_engine,
                    vosk_engines, init_threads, after_queue, main_pc, engineVars,
                    handled, wall_clock, segmenterVars, callVars,
                    callback_exception >>

\* AudioStream.start, under the stream's lock.  failure: sd.InputStream(...)
\* or, when held, the start() of the InputStream just stored raises
audio_stream_start(a, failure, held) ==
    IF a.is_running THEN a
    ELSE IF failure THEN [a EXCEPT !.stream = (held \/ a.stream)]
    ELSE [a EXCEPT !.stream = TRUE, !.is_running = TRUE]

\* AudioStream.start called on the s-th stream
AudioStreamStart(s, failure, held) ==
    /\ s \in 1..Len(audio_streams)
    /\ held => failure
    /\ failure => ~audio_streams[s].is_running
    /\ audio_streams' =
          [audio_streams EXCEPT
             ![s] = audio_stream_start(audio_streams[s], failure, held)]
    /\ IF failure THEN RaiseInCallback("PortAudioError")
       ELSE UNCHANGED callback_exception
    /\ UNCHANGED << registryVars, panelVars, notesVars, is_running,
                    stream_start_wall_time, audio_stream, vosk_engine,
                    vosk_engines, init_threads, after_queue, main_pc, engineVars,
                    handled, wall_clock, segmenterVars, callVars >>

\* AudioStream.stop called on the s-th stream
AudioStreamStop(s) ==
    /\ s \in 1..Len(audio_streams)
    /\ audio_streams' =
          [audio_streams EXCEPT ![s] = audio_stream_stop(audio_streams[s])]
    /\ UNCHANGED << registryVars, panelVars, notesVars, is_running,
                    stream_start_wall_time, audio_stream, vosk_engine,
                    vosk_engines, init_threads, after_queue, main_pc, engineVars,
                    handled, wall_clock, segmenterVars, callVars,
                    callback_exception >>

\* As a step of _run, with the thread terminating as soon as it finds
\* _running false
RunStepNoFlush(w, raw, failure) ==
    LET pc == workers[w].pc
        engine == vosk_engines[workers[w].engine]
        goto(next) == workers' = [workers EXCEPT ![w].pc = next]
    IN
    /\ pc \notin {"done", "unstarted"}
    /\ CASE pc = "check" ->
              /\ raw = NoRaw /\ ~failure
              /\ goto(IF engine.running THEN "get" ELSE "done")
              /\ UNCHANGED << audio_queue, result_queue, last_raw, emitted >>
         [] pc = "get" ->
              /\ ~failure
              /\ IF audio_queue = 0
                 THEN /\ raw = NoRaw
                      /\ UNCHANGED << audio_queue, result_queue, last_raw, emitted >>
                 ELSE /\ raw # NoRaw
                      /\ audio_queue' = audio_queue - 1
                      /\ last_raw' = raw
                      /\ IF raw.kind = "final"
                         THEN handle_final_result(raw)
                         ELSE handle_partial_result(raw)
              /\ goto("check")
         [] pc = "flush" ->
              /\ IF failure
                 THEN /\ raw = NoRaw
                      /\ last_raw' = RaisedRaw
                      /\ UNCHANGED << result_queue, emitted >>
                 ELSE /\ raw \in RawFinals
                      /\ last_raw' = raw
                      /\ handle_final_result(raw)
              /\ goto("done")
              /\ UNCHANGED audio_queue
    /\ UNCHANGED << registryVars, panelVars, notesVars, appVars, frames_captured,
                    handled, wall_clock, segmenterVars,
                    callVars, callback_exception >>

\* As a step of _run, with audio_queue.get() called without a timeout: on
\* an empty queue the thread waits for the next frame
RunStepBlocking(w, raw, failure) ==
    LET pc == workers[w].pc
        engine == vosk_engines[workers[w].engine]
        goto(next) == workers' = [workers EXCEPT ![w].pc = next]
    IN
    /\ pc \notin {"done", "unstarted"}
    /\ CASE pc = "check" ->
              /\ raw = NoRaw /\ ~failure
              /\ goto(IF engine.running THEN "get" ELSE "flush")
              /\ UNCHANGED << audio_queue, result_queue, last_raw, emitted >>
         [] pc = "get" ->
              /\ ~failure
              /\ audio_queue > 0
              /\ raw # NoRaw
              /\ audio_queue' = audio_queue - 1
              /\ last_raw' = raw
              /\ IF raw.kind = "final"
                 THEN handle_final_result(raw)
                 ELSE handle_partial_result(raw)
              /\ goto("check")
         [] pc = "flush" ->
              /\ IF failure
                 THEN /\ raw = NoRaw
                      /\ last_raw' = RaisedRaw
                      /\ UNCHANGED << result_queue, emitted >>
                 ELSE /\ raw \in RawFinals
                      /\ last_raw' = raw
                      /\ handle_final_result(raw)
              /\ goto("done")
              /\ UNCHANGED audio_queue
    /\ UNCHANGED << registryVars, panelVars, notesVars, appVars, frames_captured,
                    handled, wall_clock, segmenterVars,
                    callVars, callback_exception >>

\* One step of the w-th VoskEngine._run thread.  raw: what the recognizer
\* returns in this step; failure: FinalResult() raises
RunStep(w, raw, failure) ==
    LET pc == workers[w].pc
        engine == vosk_engines[workers[w].engine]
        goto(next) == workers' = [workers EXCEPT ![w].pc = next]
    IN
    /\ pc \notin {"done", "unstarted"}
    /\ CASE pc = "check" ->
              /\ raw = NoRaw /\ ~failure
              /\ goto(IF engine.running THEN "get" ELSE "flush")
              /\ UNCHANGED << audio_queue, result_queue, last_raw, emitted >>
         [] pc = "get" ->
              /\ ~failure
              /\ IF audio_queue = 0
                 THEN /\ raw = NoRaw
                      /\ UNCHANGED << audio_queue, result_queue, last_raw, emitted >>
                 ELSE /\ raw # NoRaw
                      /\ audio_queue' = audio_queue - 1
                      /\ last_raw' = raw
                      /\ IF raw.kind = "final"
                         THEN handle_final_result(raw)
                         ELSE handle_partial_result(raw)
              /\ goto("check")
         [] pc = "flush" ->
              /\ IF failure
                 THEN /\ raw = NoRaw
                      /\ last_raw' = RaisedRaw
                      /\ UNCHANGED << result_queue, emitted >>
                 ELSE /\ raw \in RawFinals
                      /\ last_raw' = raw
                      /\ handle_final_result(raw)
              /\ goto("done")
              /\ UNCHANGED audio_queue
    /\ UNCHANGED << registryVars, panelVars, notesVars, appVars, frames_captured,
                    handled, wall_clock, segmenterVars,
                    callVars, callback_exception >>

\* As _handle_stt_result, with each wall time computed from its own
\* relative time
handle_stt_result_each(result) ==
    LET real_start ==
            IF stream_start_wall_time # NoTime /\ result.start_time # NoTime
            THEN stream_start_wall_time + result.start_time
            ELSE NoTime
        real_end ==
            IF stream_start_wall_time # NoTime /\ result.end_time # NoTime
            THEN stream_start_wall_time + result.end_time
            ELSE NoTime
    IN IF result.type = "partial"
       THEN /\ update_live_partial(result.text, NoTime, NoTime)
            /\ UNCHANGED << last_timestamp_str, widgetVars >>
       ELSE IF result.type = "final"
       THEN /\ add_final_sentence(result.text, real_start, real_end)
            /\ update_live_partial(<<>>, NoTime, NoTime)
       ELSE UNCHANGED panelVars

\* SpeechToTextApp._handle_stt_result
handle_stt_result(result) ==
    LET known == /\ stream_start_wall_time # NoTime
                 /\ result.start_time # NoTime
                 /\ result.end_time # NoTime
        real_start == IF known THEN stream_start_wall_time + result.start_time
                      ELSE NoTime
        real_end == IF known THEN stream_start_wall_time + result.end_time
                    ELSE NoTime
    IN IF result.type = "partial"
       THEN /\ update_live_partial(result.text, NoTime, NoTime)
            /\ UNCHANGED << last_timestamp_str, widgetVars >>
       ELSE IF result.type = "final"
       THEN /\ add_final_sentence(result.text, real_start, real_end)
            /\ update_live_partial(<<>>, NoTime, NoTime)
       ELSE UNCHANGED panelVars

\* SpeechToTextApp._handle_stt_result called on the main thread with a
\* result of any shape
HandleSttResultCall(result) ==
    /\ main_pc = "idle"
    /\ handled' = Append(handled, result)
    /\ handle_stt_result(result)
    /\ UNCHANGED << registryVars, notesVars, appVars, engineVars, wall_clock,
                    segmenterVars, callVars, callback_exception >>

\* As PollGet, taking the newest result first
PollGetNewest ==
    /\ main_pc = "draining"
    /\ result_queue # <<>>
    /\ result_queue' = SubSeq(result_queue, 1, Len(result_queue) - 1)
    /\ handled' = Append(handled, result_queue[Len(result_queue)])
    /\ handle_stt_result(result_queue[Len(result_queue)])
    /\ UNCHANGED << registryVars, notesVars, appVars, workers, audio_queue,
                    frames_captured, last_raw, emitted, wall_clock, segmenterVars,
                    callVars, callback_exception >>

\* SpeechToTextApp._poll_stt_results: the timer fires
PollTick ==
    /\ main_pc = "idle"
    /\ main_pc' = "draining"
    /\ UNCHANGED << registryVars, panelVars, notesVars, is_running,
                    stream_start_wall_time, audio_stream, audio_streams,
                    vosk_engine, vosk_engines, init_threads, after_queue,
                    engineVars, handled, wall_clock, segmenterVars,
                    callVars, callback_exception >>

\* ... get_nowait() returns a result, which is handled
PollGet ==
    /\ main_pc = "draining"
    /\ result_queue # <<>>
    /\ result_queue' = Tail(result_queue)
    /\ handled' = Append(handled, Head(result_queue))
    /\ handle_stt_result(Head(result_queue))
    /\ UNCHANGED << registryVars, notesVars, appVars, workers, audio_queue,
                    frames_captured, last_raw, emitted, wall_clock, segmenterVars,
                    callVars, callback_exception >>

\* ... get_nowait() raises queue.Empty and the timer is armed again
PollEmpty ==
    /\ main_pc = "draining"
    /\ result_queue = <<>>
    /\ main_pc' = "idle"
    /\ UNCHANGED << registryVars, panelVars, notesVars, is_running,
                    stream_start_wall_time, audio_stream, audio_streams,
                    vosk_engine, vosk_engines, init_threads, after_queue,
                    engineVars, handled, wall_clock, segmenterVars,
                    callVars, callback_exception >>

(***************************************************************************)
(* Export to JSON.                                                         *)
(***************************************************************************)
\* As _build_export_data, with exported_at beside the three lists
build_export_data_flat(now) ==
    [ exported_at |-> now,
      speakers |-> get_all_speakers(speakers),
      transcript |-> get_sentences(sentences_text),
      notes |-> get_notes(notes_text) ]

\* SpeechToTextApp._build_export_data; now: datetime.now(), kept as the
\* clock's reading instead of its ISO text
build_export_data(now) ==
    [ metadata |-> [exported_at |-> now],
      speakers |-> get_all_speakers(speakers),
      transcript |-> get_sentences(sentences_text),
      notes |-> get_notes(notes_text) ]

\* What the user and the file system can make of an export: the file dialog
\* is cancelled, the file is written, open() raises, or json.dump raises
\* after the file was opened for writing
ExportOutcomes == { "cancelled", "written", "open_failed", "dump_failed" }

\* As _on_export_clicked, emptying the transcript once the file is written
OnExportClickedClearing(outcome) ==
    /\ main_pc = "idle"
    /\ export_calls' = export_calls + 1
    /\ wall_clock' = wall_clock + 1
    /\ CASE outcome = "cancelled" ->
              UNCHANGED << export_file, write_attempts, dialog, widgetVars >>
         [] outcome = "written" ->
              /\ export_file' =
                    [written |-> "all", data |-> build_export_data(TimeAt(wall_clock))]
              /\ write_attempts' = write_attempts + 1
              /\ ShowDialog("Export successful")
              /\ sentences_text' = <<>>
              /\ widget_lines' = <<>>
              /\ UNCHANGED speaker_tags
         [] outcome = "open_failed" ->
              /\ write_attempts' = write_attempts + 1
              /\ ShowDialog("Export failed")
              /\ UNCHANGED << export_file, widgetVars >>
         [] outcome = "dump_failed" ->
              /\ export_file' = [written |-> "part"]
              /\ write_attempts' = write_attempts + 1
              /\ ShowDialog("Export failed")
              /\ UNCHANGED widgetVars
    /\ UNCHANGED << speakers, active_speaker, color_cycle, buttons, add_count,
                    notifications, panel_speaker, last_timestamp_str, live_label,
                    notesVars, appVars, engineVars, handled,
                    segmenterVars, set_active_call, on_error_calls, last_callback,
                    last_edit, model_path, callback_exception >>

\* SpeechToTextApp._on_export_clicked
OnExportClicked(outcome) ==
    /\ main_pc = "idle"
    /\ export_calls' = export_calls + 1
    /\ wall_clock' = wall_clock + 1
    /\ CASE outcome = "cancelled" ->
              UNCHANGED << export_file, write_attempts, dialog >>
         [] outcome = "written" ->
              /\ export_file' =
                    [written |-> "all", data |-> build_export_data(TimeAt(wall_clock))]
              /\ write_attempts' = write_attempts + 1
              /\ ShowDialog("Export successful")
         [] outcome = "open_failed" ->
              /\ write_attempts' = write_attempts + 1
              /\ ShowDialog("Export failed")
              /\ UNCHANGED export_file
         [] outcome = "dump_failed" ->
              /\ export_file' = [written |-> "part"]
              /\ write_attempts' = write_attempts + 1
              /\ ShowDialog("Export failed")
    /\ UNCHANGED << speakers, active_speaker, color_cycle, buttons, add_count,
                    notifications, panel_speaker, panelVars, notesVars, appVars,
                    engineVars, handled, segmenterVars, set_active_call,
                    on_error_calls, last_callback, last_edit, model_path,
                    callback_exception >>

(***************************************************************************)
(* The state after SpeechToTextApp.__init__.                               *)
(***************************************************************************)

Init ==
    /\ speakers = <<>>
    /\ active_speaker = NoName
    /\ color_cycle = 1
    /\ buttons = {}
    /\ add_count = 0
    /\ dialog = [title |-> "", shown |-> 0]
    /\ notifications = 0
    /\ panel_speaker = [name |-> UnknownName, color |-> "#000000"]
    /\ last_timestamp_str = UnknownStr
    /\ live_label = <<>>
    /\ sentences_text = <<>>
    /\ speaker_tags = {}
    /\ widget_lines = <<>>
    /\ notes_text = <<>>
    /\ note_tags = {}
    /\ note_log = <<>>
    /\ is_running = FALSE
    /\ stream_start_wall_time = NoTime
    /\ audio_streams = <<>>
    /\ audio_stream = 0
    /\ vosk_engines = <<>>
    /\ vosk_engine = 0
    /\ wall_clock = 0
    /\ init_threads = <<>>
    /\ workers = <<>>
    /\ after_queue = <<>>
    /\ main_pc = "idle"
    /\ audio_queue = 0
    /\ result_queue = <<>>
    /\ frames_captured = 0
    /\ last_raw = NoRaw
    /\ emitted = <<>>
    /\ handled = <<>>
    /\ pause_threshold_sec = SENTENCE_PAUSE_THRESHOLD_SEC
    /\ boundary_call = [made |-> FALSE, prev_end |-> 0, next_start |-> 0,
                        result |-> FALSE]
    /\ callback_exception = [name |-> "", count |-> 0]
    /\ set_active_call = [name |-> NoName, raised |-> "", calls |-> 0]
    /\ export_file = NoFile
    /\ export_calls = 0
    /\ write_attempts = 0
    /\ on_error_calls = 0
    /\ last_callback = [stream |-> 0, failed |-> FALSE]
    /\ last_edit = [old_name |-> NoName, answer |-> NoName, picked |-> NoColor,
                    calls |-> 0]
    /\ model_path = DEFAULT_VOSK_MODEL_PATH

(***************************************************************************)
(* Specifications of the speaker manager alone.                            *)
(***************************************************************************)
\* The user's operations on the speaker manager, with names from NameSet
\* and at most maxAdds speakers added.
RegistryStep(NameSet, maxAdds) ==
    \/ \E name \in NameSet \cup {NoName} :
          add_count < maxAdds /\ OnAddSpeakerClicked(name)
    \/ \E name \in NameSet :
          add_count < maxAdds /\ OnAddSpeakerClickedWithName(name)
    \/ \E name \in NameSet : ClickSpeaker(name)
    \/ \E old_name \in NameSet, answer \in NameSet \cup {NoName},
          picked \in PickedColors \cup {NoColor} :
          EditSpeaker(old_name, answer, picked)

RegistryNext == RegistryStep(Names, MaxSpeakers)

PaletteNext == RegistryStep(FewNames, MaxAdds)

SpecRegistry == Init /\ [][RegistryNext]_vars

SpecPalette == Init /\ [][PaletteNext]_vars

\* The names are added in turn, and speakers are edited with the answers kept
EditNames == << <<"A">>, <<"B">>, <<"C">> >>

EditNext ==
    \/ /\ add_count < MaxEditAdds
       /\ OnAddSpeakerClicked(EditNames[(add_count % Len(EditNames)) + 1])
    \/ \E old_name \in Names, answer \in Names \cup {NoName},
          picked \in PickedColors \cup {NoColor} :
          EditSpeakerCall(old_name, answer, picked)

SpecEdit == Init /\ [][EditNext]_vars

\* The same operations, and set_active_speaker called with registered and
\* unregistered names
SetActiveNext ==
    \/ RegistryStep(FewNames, MaxActiveAdds)
    \/ \E name \in Names : SetActiveSpeakerCall(name)

SpecSetActive == Init /\ [][SetActiveNext]_vars

(***************************************************************************)
(* Specifications of the two text widgets: the panels' public methods are  *)
(* called with sample arguments, the user types lines and right-clicks.    *)
(***************************************************************************)
TextNames == { <<"A">>, <<"A", ":", "B">>, <<" ", "A">> }
TextColors == { "#1f77b4", "#ff7f0e" }
SentenceTexts == { <<"h", "i">>, <<"a", ":", " ", "b">>, <<" ", "x">>, <<>> }
NoteNames == { <<"A">>, <<"B">> }
NoteTexts == { <<"o", "k">>, <<"x", "\n", "y">>, PlaceholderText }
NoteStamps == { UnknownStr, <<"0", "1", ":", "0", "2">> }
TypedLines == { <<"h", "m">>, <<>>, <<"[", "x", "]", "A">> }
SampleTimes == { [start |-> NoTime, end |-> NoTime],
                 [start |-> 43200000, end |-> 43201200] }

\* TranscriptionPanel.update_active_speaker, called directly
UpdateActiveSpeakerCall(name, color) ==
    /\ update_active_speaker(name, color)
    /\ UNCHANGED << speakers, active_speaker, color_cycle, buttons, add_count,
                    dialog, panelVars, notesVars, sessionVars, segmenterVars,
                    callVars, callback_exception >>

AddFinalSentenceCall(text, start_time, end_time, maxLines) ==
    /\ Len(widget_lines) < maxLines
    /\ add_final_sentence(text, start_time, end_time)
    /\ UNCHANGED << registryVars, live_label, notesVars, sessionVars, segmenterVars,
                    callVars, callback_exception >>

UserTypesLineCall(line) ==
    /\ Len(widget_lines) < MaxLines
    /\ UserTypesLine(line)
    /\ UNCHANGED << registryVars, notesVars, sessionVars, segmenterVars,
                    callVars, callback_exception >>

AddNoteCall(speaker_name, speaker_color, timestamp_str, text) ==
    /\ Len(note_log) < MaxNotes
    /\ add_note(speaker_name, speaker_color, timestamp_str, text)
    /\ UNCHANGED << registryVars, panelVars, sessionVars, segmenterVars,
                    callVars, callback_exception >>

OnRightClickCall(line_no) ==
    /\ Len(note_log) < MaxNotes
    /\ OnRightClick(line_no)
    /\ UNCHANGED << sessionVars, segmenterVars,
                    callVars, callback_exception >>

TranscriptNext ==
    \/ \E name \in TextNames, color \in TextColors :
          UpdateActiveSpeakerCall(name, color)
    \/ \E text \in SentenceTexts, t \in SampleTimes :
          AddFinalSentenceCall(text, t.start, t.end, MaxLines)
    \/ \E line \in TypedLines : UserTypesLineCall(line)

SpecTranscript == Init /\ [][TranscriptNext]_vars

NotesNext ==
    \/ \E name \in NoteNames : UpdateActiveSpeakerCall(name, "#1f77b4")
    \/ \E t \in SampleTimes :
          AddFinalSentenceCall(<<"h", "i">>, t.start, t.end, MaxNoteLines)
    \/ \E name \in NoteNames, stamp \in NoteStamps, text \in NoteTexts :
          AddNoteCall(name, "#ff7f0e", stamp, text)
    \/ \E line_no \in 1..(MaxNoteLines + 1) : OnRightClickCall(line_no)

SpecNotes == Init /\ [][NotesNext]_vars

(***************************************************************************)
(* Specification of the sentence segmenter: a segmenter is constructed     *)
(* with a sample threshold and asked about sample word times.              *)
(***************************************************************************)
Thresholds == (0 - MaxTick)..MaxTick
WordTimes == 0..MaxTick

BoundaryNext ==
    \/ \E threshold \in Thresholds : NewSegmenter(threshold)
    \/ \E prev_end \in WordTimes, next_start \in WordTimes :
          IsBoundaryCall(prev_end, next_start)

SpecBoundary == Init /\ [][BoundaryNext]_vars

(***************************************************************************)
(* Specification of the audio stream alone: streams are constructed with   *)
(* and without an error handler, started and stopped, and the device       *)
(* delivers blocks to the started ones.                                    *)
(***************************************************************************)
AudioNext ==
    \/ \E on_error \in BOOLEAN :
          Len(audio_streams) < MaxAudioStreams /\ NewAudioStream(on_error)
    \/ \E s \in 1..Len(audio_streams), failure \in BOOLEAN, held \in BOOLEAN :
          AudioStreamStart(s, failure, held)
    \/ \E s \in 1..Len(audio_streams) : AudioStreamStop(s)
    \/ \E s \in 1..Len(audio_streams), failure \in BOOLEAN :
          AudioCallback(s, failure)

SpecAudio == Init /\ [][AudioNext]_vars

(***************************************************************************)
(* Specification of the result handler: a speaker is added, a session is   *)
(* started and stopped, and _handle_stt_result is given results with no,   *)
(* one or both relative times.                                             *)
(***************************************************************************)
SampleResults ==
    { STTResult("partial", <<"h">>, NoTime, NoTime),
      STTResult("final", <<"h", "i">>, NoTime, NoTime),
      STTResult("final", <<"h", "i">>, 0, 1200),
      STTResult("final", <<"h", "i">>, 300, NoTime),
      STTResult("final", <<"h", "i">>, NoTime, 1200) }

HandleNext ==
    \/ add_count < 1 /\ OnAddSpeakerClicked(<<"A">>)
    \/ /\ is_running \/ Len(init_threads) < MaxStarts
       /\ OnStartStopClicked(TRUE)
    \/ JoinReturns
    \/ \E i \in 1..Len(init_threads) : InitWorkerStep(i, FALSE, FALSE)
    \/ AfterCallback
    \/ \E result \in SampleResults :
          Len(handled) < MaxHandled /\ HandleSttResultCall(result)

SpecHandle == Init /\ [][HandleNext]_vars

(***************************************************************************)
(* Specification of the model selection: a speaker is added, models are    *)
(* selected while no session is starting or running, and sessions are      *)
(* started, one after the other, and stopped; a Start can be clicked at    *)
(* any time while the selected model is missing.                           *)
(***************************************************************************)
NoneStarting == \A i \in 1..Len(init_threads) : init_threads[i] = "done"

ModelNext ==
    \/ add_count < 1 /\ OnAddSpeakerClicked(<<"A">>)
    \/ \E path \in ModelPaths, exists \in BOOLEAN :
          /\ ~is_running /\ NoneStarting
          /\ OnModelSelected(path, exists)
    \/ \E model_exists \in BOOLEAN :
          /\ \/ is_running
             \/ ~model_exists
             \/ Len(init_threads) < MaxSessionStarts /\ NoneStarting
          /\ OnStartStopClicked(model_exists)
    \/ JoinReturns
    \/ \E i \in 1..Len(init_threads) : InitWorkerStep(i, FALSE, FALSE)
    \/ AfterCallback

SpecModel == Init /\ [][ModelNext]_vars

(***************************************************************************)
(* Specification of the export: a speaker, sentences and notes are added,  *)
(* a session is started (once the previous start has completed) and        *)
(* stopped, and the Export button is clicked.                              *)
(***************************************************************************)
ExportNext ==
    \/ add_count < MaxExportAdds /\ OnAddSpeakerClicked(<<"A">>)
    \/ AddFinalSentenceCall(<<"h", "i">>, NoTime, NoTime, MaxExportAdds)
    \/ /\ Len(note_log) < MaxExportAdds
       /\ AddNoteCall(<<"A">>, "#ff7f0e", UnknownStr, <<"o", "k">>)
    \/ /\ is_running \/ Len(init_threads) < MaxStarts
       /\ \A i \in 1..Len(init_threads) : init_threads[i] = "done"
       /\ OnStartStopClicked(TRUE)
    \/ JoinReturns
    \/ \E i \in 1..Len(init_threads) : InitWorkerStep(i, FALSE, FALSE)
    \/ AfterCallback
    \/ \E outcome \in ExportOutcomes :
          export_calls < MaxExports /\ OnExportClicked(outcome)

SpecExport == Init /\ [][ExportNext]_vars

(***************************************************************************)
(* Properties of the speaker manager.                                      *)
(***************************************************************************)
\* The panel's speaker context is the manager's active speaker and color
PanelIsActive ==
    panel_speaker = [name |-> active_speaker,
                     color |-> get_speaker_color(speakers, active_speaker)]

\* C2: once a speaker is active, the name and color the transcription panel
\* attributes the next finalized segment to are the speaker manager's active
\* speaker and that speaker's current color.
PanelFollowsActiveSpeaker == active_speaker # NoName => PanelIsActive

\* C4: the Nth successful add gives the new speaker the palette color at
\* index (N-1) mod 8 (add_count is N-1 before the add; Palette is 1-based),
\* appends it to the registry and makes it the active speaker.
NthAddGetsNthPaletteColor ==
    [][add_count' = add_count + 1 =>
          /\ Len(speakers') = Len(speakers) + 1
          /\ ~HasSpeaker(speakers, speakers'[Len(speakers')].name)
          /\ speakers'[Len(speakers')].color
                = Palette[(add_count % PaletteSize) + 1]
          /\ active_speaker' = speakers'[Len(speakers')].name]_vars

\* The ninth add has wrapped around the palette to its first color
NinthAddWrapsPalette ==
    /\ add_count = PaletteSize + 1
    /\ speakers # <<>>
    /\ speakers[Len(speakers)].color = Palette[1]
    /\ active_speaker = speakers[Len(speakers)].name
    /\ color_cycle = 2

\* C5: an add that is rejected as a duplicate leaves the names, colors and
\* order of the registry, the active speaker and the palette position as
\* they were and sends no active-speaker notification.
DuplicateAddChangesNothing ==
    [][(dialog'.shown # dialog.shown /\ dialog'.title = "Duplicate Speaker")
          => UNCHANGED << speakers, active_speaker, color_cycle, buttons,
                          add_count, notifications, panel_speaker >>]_vars

\* A duplicate add has been rejected with two speakers registered
DuplicateRejected ==
    /\ dialog.title = "Duplicate Speaker"
    /\ Len(speakers) = 2
    /\ add_count = 2
    /\ color_cycle = 3

\* C6: the active speaker name is either unset or a key of the registry.
ActiveSpeakerInRegistry ==
    active_speaker = NoName \/ HasSpeaker(speakers, active_speaker)

\* The active speaker was renamed to a name that already existed: two
\* entries merged into one, which is the active one
ActiveRenamedOntoExisting ==
    /\ add_count = 2
    /\ Len(speakers) = 1
    /\ active_speaker = speakers[1].name
    /\ speakers[1].button # speakers[1].name

(***************************************************************************)
(* Properties of the transcript and notes encodings.                       *)
(***************************************************************************)
HasChar(str, c) == \E i \in 1..Len(str) : str[i] = c

\* A name the line format carries unchanged: not empty, no colon, no line
\* break, no whitespace at either end
PlainName(name) ==
    /\ name # <<>>
    /\ ~HasChar(name, ":")
    /\ ~HasChar(name, "\n")
    /\ Strip(name) = name

\* A text the line format carries unchanged: one line, no leading whitespace
PlainText(text) == ~HasChar(text, "\n") /\ LStrip(text) = text

\* The segments insert_sentence wrote, in insertion order
InsertedLines == SelectSeq(widget_lines, LAMBDA l : ~l.typed)

\* What the round trip should give back for the inserted segments
ExpectedSentences ==
    [ i \in 1..Len(InsertedLines) |->
        [ timestamp |-> FormatTimestamp(InsertedLines[i].start_time,
                                        InsertedLines[i].end_time),
          speaker |-> InsertedLines[i].speaker_name,
          text |-> InsertedLines[i].text ] ]

\* C10 as stated: get_sentences returns, in insertion order, the formatted
\* timestamp, speaker name and text of every segment insert_sentence wrote,
\* and skips the lines that do not match the format.
SentencesRoundTrip == get_sentences(sentences_text) = ExpectedSentences

\* C10, amended: the round trip is exact when every inserted segment has a
\* speaker name without colon, line break or outer whitespace and a
\* one-line text without leading whitespace; typed lines that do not match
\* the format are skipped.
PlainSentencesRoundTrip ==
    (\A i \in 1..Len(InsertedLines) :
        /\ PlainName(InsertedLines[i].speaker_name)
        /\ PlainText(InsertedLines[i].text))
    => SentencesRoundTrip

\* A segment whose text contains ": " stands next to a typed line that does
\* not match the format, and one entry comes back
ColonTextBesideTypedLine ==
    /\ Len(widget_lines) = 2
    /\ widget_lines[1].typed
    /\ widget_lines[1].text = <<"[", "x", "]", "A">>
    /\ ~widget_lines[2].typed
    /\ widget_lines[2].speaker_name = <<"A">>
    /\ widget_lines[2].text = <<"a", ":", " ", "b">>
    /\ widget_lines[2].start_time # NoTime
    /\ Len(get_sentences(sentences_text)) = 1

\* What the round trip should give back for the notes added so far
ExpectedNotes ==
    [ i \in 1..Len(note_log) |->
        [ timestamp |-> note_log[i].timestamp_str,
          speaker |-> note_log[i].speaker_name,
          text |-> note_log[i].text ] ]

\* no blank line inside the text
NoBlankLine(text) ==
    \A i \in 1..Len(text) :
       text[i] = "\n" =>
          /\ i > 1
          /\ i < Len(text)
          /\ text[i + 1] # "\n"

\* C9: get_notes returns one entry per note, in creation order, with the
\* timestamp, speaker and text given to add_note, for speaker names without
\* ':' and texts without blank lines.
NotesRoundTrip ==
    (\A i \in 1..Len(note_log) :
        /\ PlainName(note_log[i].speaker_name)
        /\ NoBlankLine(note_log[i].text))
    => get_notes(notes_text) = ExpectedNotes

(***************************************************************************)
(* Properties of the sentence segmenter.                                   *)
(***************************************************************************)
\* C7: is_boundary answers true exactly when next_start - prev_end is at
\* least the threshold, and a call changes nothing but its own result.
BoundaryIffGapAtLeastThreshold ==
    /\ [](boundary_call.made =>
            (boundary_call.result <=>
               boundary_call.next_start - boundary_call.prev_end
                  >= pause_threshold_sec))
    /\ [][boundary_call'.made /\ boundary_call' # boundary_call =>
            UNCHANGED << pause_threshold_sec, registryVars, panelVars,
                         notesVars, sessionVars, callVars,
                         callback_exception >>]_vars

\* A call with a negative gap exactly equal to the threshold answered true
NegativeGapEqualToThreshold ==
    /\ boundary_call.made
    /\ boundary_call.next_start - boundary_call.prev_end = pause_threshold_sec
    /\ pause_threshold_sec < 0
    /\ boundary_call.result

(***************************************************************************)
(* Specification of the application: the user adds, selects and edits      *)
(* speakers and clicks Start/Stop while the timer, the init_worker         *)
(* threads, the audio device and the engine's threads run.                 *)
(***************************************************************************)
Next ==
    \/ \E name \in FewNames :
          add_count < MaxSessionAdds /\ OnAddSpeakerClicked(name)
    \/ \E name \in FewNames : ClickSpeaker(name)
    \/ \E old_name \in FewNames : EditSpeaker(old_name, NoName, NoColor)
    \/ \E model_exists \in BOOLEAN :
          /\ is_running \/ Len(init_threads) < MaxStarts
          /\ OnStartStopClicked(model_exists)
    \/ JoinReturns
    \/ \E i \in 1..Len(init_threads), failure \in BOOLEAN, held \in BOOLEAN :
          InitWorkerStep(i, failure, held)
    \/ AfterCallback
    \/ \E s \in 1..Len(audio_streams) : AudioCallback(s, FALSE)
    \/ \E w \in 1..Len(workers), raw \in RawPartials \cup RawFinals \cup {NoRaw},
          failure \in BOOLEAN :
          RunStep(w, raw, failure)
    \/ PollTick
    \/ PollGet
    \/ PollEmpty

Spec == Init /\ [][Next]_vars

(***************************************************************************)
(* Specification of the session's life cycle: one speaker, Start/Stop      *)
(* clicks that may come while an earlier start is still initializing,      *)
(* destroy, and the background threads; the results are left on the queue. *)
(***************************************************************************)
SessionRaws == { RawFinal(<<"o", "k">>, FALSE, 0, 0), NoRaw }

SessionNext ==
    \/ add_count < 1 /\ OnAddSpeakerClicked(<<"A">>)
    \/ /\ is_running \/ Len(init_threads) < MaxSessionStarts
       /\ OnStartStopClicked(TRUE)
    \/ Destroy
    \/ JoinReturns
    \/ \E i \in 1..Len(init_threads), failure \in BOOLEAN, held \in BOOLEAN :
          InitWorkerStep(i, failure, held)
    \/ AfterCallback
    \/ \E s \in 1..Len(audio_streams) : AudioCallback(s, FALSE)
    \/ \E w \in 1..Len(workers), raw \in SessionRaws, failure \in BOOLEAN :
          RunStep(w, raw, failure)

SpecSession == Init /\ [][SessionNext]_vars

(***************************************************************************)
(* Specification of stopping: the session's life cycle without failing     *)
(* initializations, a Start being clicked once the earlier initializations *)
(* have completed.  Every engine thread that can take a step eventually   *)
(* takes one (the threads are scheduled by the operating system), and a    *)
(* join with a timeout eventually returns.                                 *)
(***************************************************************************)
StopNext ==
    \/ add_count < 1 /\ OnAddSpeakerClicked(<<"A">>)
    \/ /\ is_running \/ Len(init_threads) < MaxStarts
       /\ \A i \in 1..Len(init_threads) : init_threads[i] = "done"
       /\ OnStartStopClicked(TRUE)
    \/ Destroy
    \/ JoinReturns
    \/ \E i \in 1..Len(init_threads) : InitWorkerStep(i, FALSE, FALSE)
    \/ AfterCallback
    \/ \E s \in 1..Len(audio_streams) : AudioCallback(s, FALSE)
    \/ \E w \in 1..Len(workers), raw \in SessionRaws, failure \in BOOLEAN :
          RunStep(w, raw, failure)

\* A step of the w-th engine thread, once it exists
WorkerStep(w) ==
    /\ w \in 1..Len(workers)
    /\ \E raw \in SessionRaws, failure \in BOOLEAN : RunStep(w, raw, failure)

SpecStop ==
    /\ Init
    /\ [][StopNext]_vars
    /\ \A w \in 1..MaxStarts : WF_vars(WorkerStep(w))
    /\ WF_vars(JoinReturns)

(***************************************************************************)
(* Properties of the application.                                          *)
(***************************************************************************)
\* The result handled in this step, when one is
JustHandled == handled'[Len(handled')]

BothTimes(result) == result.start_time # NoTime /\ result.end_time # NoTime

\* The segment a Final result should become when it is handled now
SegmentOf(result) ==
    [ typed |-> FALSE,
      speaker_name |-> active_speaker,
      speaker_color |-> get_speaker_color(speakers, active_speaker),
      start_time |-> IF BothTimes(result)
                     THEN stream_start_wall_time + result.start_time ELSE NoTime,
      end_time |-> IF BothTimes(result)
                   THEN stream_start_wall_time + result.end_time ELSE NoTime,
      text |-> result.text ]

\* C1: handling a Final result with non-empty text, while a speaker is
\* active and the stream start wall time is recorded, appends exactly one
\* segment with the active speaker's name and color, the wall times
\* stream_start_wall_time + relative time and the result's text, and
\* empties the live partial; handling a Partial result adds no segment.
FinalBecomesActiveSpeakersSegment ==
    [][handled' # handled =>
          /\ (/\ JustHandled.type = "final"
              /\ JustHandled.text # <<>>
              /\ active_speaker # NoName
              /\ stream_start_wall_time # NoTime)
             => /\ widget_lines' = Append(widget_lines, SegmentOf(JustHandled))
                /\ sentences_text' =
                      sentences_text
                      \o SentenceLine(active_speaker,
                                      SegmentOf(JustHandled).start_time,
                                      SegmentOf(JustHandled).end_time,
                                      JustHandled.text)
                /\ live_label' = <<>>
          /\ JustHandled.type = "partial" => UNCHANGED widgetVars]_vars

\* A Final result with word times was handled while a speaker was active
\* and the start time recorded
TimedFinalHandled ==
    /\ handled # <<>>
    /\ handled[Len(handled)].type = "final"
    /\ BothTimes(handled[Len(handled)])
    /\ Len(widget_lines) = 1
    /\ widget_lines[1].start_time = BaseTime
    /\ widget_lines[1].end_time = BaseTime + 1200
    /\ active_speaker # NoName
    /\ live_label = <<>>

\* The texts of the Final results among rs, in order
RECURSIVE FinalTexts(_)
FinalTexts(rs) ==
    IF rs = <<>> THEN <<>>
    ELSE IF Head(rs).type = "final"
    THEN <<Head(rs).text>> \o FinalTexts(Tail(rs))
    ELSE FinalTexts(Tail(rs))

\* C3: results are handled in the order the engine put them on the queue,
\* none twice and none skipped; a poll handles the head of the queue, and
\* arms the timer again only once the queue is empty; the transcript's
\* segments are the emitted Final results, in emission order.
ResultsHandledInEmissionOrder ==
    /\ [](handled \o result_queue = emitted)
    /\ []([i \in 1..Len(widget_lines) |-> widget_lines[i].text]
            = FinalTexts(handled))
    /\ [][handled' # handled =>
            /\ main_pc = "draining"
            /\ result_queue # <<>>
            /\ handled' = Append(handled, Head(result_queue))
            /\ result_queue' = Tail(result_queue)]_vars
    /\ [][(main_pc = "draining" /\ main_pc' = "idle") =>
            result_queue = <<>>]_vars

\* Two Final results were emitted, and one poll handled both in order
TwoFinalsHandledInOnePoll ==
    /\ main_pc = "draining"
    /\ Len(emitted) = 2
    /\ handled = emitted
    /\ Len(widget_lines) = 2
    /\ widget_lines[1].text = <<"h", "i">>
    /\ widget_lines[2].text = <<"o", "k">>

IsBlankFinal(raw) == raw.kind = "final" /\ Strip(raw.text) = <<>>

\* C8: a Final event with empty text produces no segment and does not clear
\* the current partial: the engine thread that receives it queues nothing,
\* so no result with an empty text is ever handled, and the transcript and
\* the live partial stay as they were.
EmptyFinalChangesNothing ==
    /\ [](\A i \in 1..Len(emitted) : emitted[i].text # <<>>)
    /\ [][(workers' # workers /\ IsBlankFinal(last_raw')) =>
            UNCHANGED << result_queue, emitted, handled, panelVars >>]_vars

\* The recognizer returned an empty Final while a partial was on display
EmptyFinalWhilePartialShown ==
    /\ IsBlankFinal(last_raw)
    /\ live_label = <<"h">>
    /\ handled = emitted
    /\ Len(handled) = 1
    /\ widget_lines = <<>>
    /\ \A w \in 1..Len(workers) : workers[w].pc = "done"

(***************************************************************************)
(* Properties of the session's life cycle.                                 *)
(***************************************************************************)
\* The main thread enters _stop_transcription in this step, which calls
\* stop() on the audio stream and on the engine the application holds
StopCalled ==
    /\ main_pc = "idle"
    /\ \/ main_pc' \in {"joining", "closing", "destroyed"}
       \/ callback_exception' # callback_exception
       \/ is_running /\ ~is_running' /\ init_threads' = init_threads

NoThreadUnstarted == \A w \in 1..Len(workers) : workers[w].pc # "unstarted"

\* C11: stop() on an audio stream or an engine that is not running (never
\* started, or already stopped) raises nothing, starts and closes nothing
\* and leaves the component as it was.
StopWhenNotRunningChangesNothing ==
    [][StopCalled =>
          /\ (audio_stream # 0 /\ ~audio_streams[audio_stream].is_running)
                => audio_streams' = audio_streams
          /\ (vosk_engine # 0 /\ ~vosk_engines[vosk_engine].running)
                => /\ vosk_engines' = vosk_engines
                   /\ workers' = workers
                   /\ callback_exception' = callback_exception]_vars

\* The same, as long as every Thread.start() succeeded
StopWhenNotRunningAfterCleanStarts ==
    [][(StopCalled /\ NoThreadUnstarted) =>
          /\ (audio_stream # 0 /\ ~audio_streams[audio_stream].is_running)
                => audio_streams' = audio_streams
          /\ (vosk_engine # 0 /\ ~vosk_engines[vosk_engine].running)
                => /\ vosk_engines' = vosk_engines
                   /\ workers' = workers
                   /\ callback_exception' = callback_exception]_vars

\* stop() raised twice on the same engine
StopRaisedAgain ==
    /\ callback_exception = [name |-> "RuntimeError", count |-> 0]
    /\ main_pc = "idle"

\* The VoskEngine._run threads that were started and have not terminated
AliveWorkers == { w \in 1..Len(workers) : workers[w].pc \notin {"done", "unstarted"} }

\* C12: under every interleaving of Start/Stop clicks, init_worker threads
\* and engine starts and stops, at most one recognition worker thread is
\* alive, so the audio queue has one consumer and the result queue one
\* producer.
AtMostOneWorkerAlive == Cardinality(AliveWorkers) <= 1

\* Two workers of one engine are alive
TwoWorkersOfOneEngine ==
    \E v, w \in AliveWorkers : v # w /\ workers[v].engine = workers[w].engine

\* Workers of two engines are alive
WorkersOfTwoEngines ==
    \E v, w \in AliveWorkers : workers[v].engine # workers[w].engine

\* C13: a start request made while the session is started or still
\* starting is a no-op: once recorded, the stream start wall time keeps its
\* value until it is cleared (by stop, or by a failed initialization); it is
\* never replaced by a later reading of the clock.
StartTimeKeptUntilCleared ==
    [][stream_start_wall_time # NoTime =>
          stream_start_wall_time' \in {stream_start_wall_time, NoTime}]_vars

\* Two init_worker threads have recorded the time, the second one last,
\* and _stop_transcription was never called
StartTimeRecordedTwice ==
    /\ init_threads = << "start_audio", "start_audio" >>
    /\ stream_start_wall_time = TimeAt(1)
    /\ main_pc = "idle"
    /\ callback_exception.name = ""

\* The except branch of an init_worker runs in this step
InitFailureHandled ==
    \E i \in 1..Len(init_threads) :
        init_threads[i] = "failed" /\ init_threads'[i] = "done"

\* C14: when session initialization has failed at any step, no component
\* is left running: the audio stream is stopped, no recognition worker is
\* alive, the running flag is false and the stream start time is absent.
InitFailureLeavesNothingRunning ==
    [][InitFailureHandled =>
          /\ ~is_running'
          /\ stream_start_wall_time' = NoTime
          /\ \A s \in 1..Len(audio_streams') : ~audio_streams'[s].is_running
          /\ \A w \in 1..Len(workers') :
                workers'[w].pc \in {"done", "unstarted"}]_vars

\* The same for the failures before the audio stream is started: the
\* construction of the engine and the start of the audio stream
EarlyInitFailureLeavesNothingRunning ==
    [][(InitFailureHandled /\ NoThreadUnstarted) =>
          /\ ~is_running'
          /\ stream_start_wall_time' = NoTime
          /\ \A s \in 1..Len(audio_streams') : ~audio_streams'[s].is_running
          /\ \A w \in 1..Len(workers') :
                workers'[w].pc \in {"done", "unstarted"}]_vars

\* The only initialization has failed in VoskEngine.start and the audio
\* stream it had started is still capturing
AudioLeftRunningAfterFailure ==
    /\ init_threads = << "done" >>
    /\ workers = << [pc |-> "unstarted", engine |-> 1] >>
    /\ after_queue = << "on_error" >>
    /\ ~is_running
    /\ audio_streams[1].is_running
    /\ audio_queue = MaxFrames

(***************************************************************************)
(* Properties of the two queues.                                           *)
(***************************************************************************)
\* A capacity below the number of blocks the device delivers
QueueCapacity == MaxFrames - 1

QueuesStayWithinCapacity ==
    /\ audio_queue <= QueueCapacity
    /\ Len(result_queue) <= QueueCapacity

\* Every block delivered so far is in the audio queue
EveryFrameQueued ==
    /\ frames_captured = MaxFrames
    /\ audio_queue = frames_captured

\* Every result emitted so far is in the result queue: one for each block
\* and the one flushed at the stop
EveryResultQueued ==
    /\ Len(result_queue) = MaxFrames + 1
    /\ result_queue = emitted

(***************************************************************************)
(* Properties of the engine's worker thread.                               *)
(***************************************************************************)
\* The w-th worker takes a step in which it is asked for the final result
Flushes(w) ==
    /\ w \in 1..Len(workers)
    /\ workers[w].pc = "flush"
    /\ workers'[w] # workers[w]

\* The result that _handle_final_result makes of what the recognizer returned
FinalResultOf(raw) ==
    STTResult("final", Strip(raw.text),
              IF raw.has_words THEN raw.start ELSE NoTime,
              IF raw.has_words THEN raw.end ELSE NoTime)

\* C17: a worker terminates only after its engine was stopped and only
\* through the flush: it asks the recognizer for the pending final result
\* and, when that has a non-empty text, puts it on the result queue behind
\* every result emitted before; whether or not the flush raised, the worker
\* terminates in that step.
WorkerFlushesBeforeTerminating ==
    /\ [][\A w \in 1..Len(workers) :
            (workers[w].pc = "check" /\ workers'[w].pc = "flush")
               => ~vosk_engines[workers[w].engine].running]_vars
    /\ [][\A w \in 1..Len(workers) :
            (workers[w].pc # "done" /\ workers'[w].pc = "done") => Flushes(w)]_vars
    /\ [][\A w \in 1..Len(workers) :
            Flushes(w) =>
               /\ workers'[w].pc = "done"
               /\ last_raw'.kind \in {"final", "raised"}
               /\ IF last_raw'.kind = "final" /\ Strip(last_raw'.text) # <<>>
                  THEN /\ result_queue' =
                             Append(result_queue, FinalResultOf(last_raw'))
                       /\ emitted' = Append(emitted, FinalResultOf(last_raw'))
                  ELSE UNCHANGED << result_queue, emitted >>]_vars

\* One block gave a result, then the engine was stopped and its worker
\* flushed a second result behind it and terminated
FlushedBehindEarlierResult ==
    /\ frames_captured = 1
    /\ Len(workers) = 1
    /\ workers[1].pc = "done"
    /\ Len(emitted) = 2
    /\ emitted[1].text = <<"h", "i">>
    /\ emitted[2] = FinalResultOf(last_raw)
    /\ emitted[2].text = <<"o", "k">>
    /\ ~is_running

(***************************************************************************)
(* Properties of the export.                                               *)
(***************************************************************************)
\* _on_export_clicked runs in this step
Exports == export_calls' # export_calls

\* ... and writes the whole file
ExportsFile == Exports /\ dialog' # dialog /\ dialog'.title = "Export successful"

\* ... and fails to write it
ExportFails == Exports /\ dialog' # dialog /\ dialog'.title = "Export failed"

EmptySession == speakers = <<>> /\ sentences_text = <<>> /\ notes_text = <<>>

\* C18: the export of a session without speakers, transcript lines and
\* notes is a record with exactly the keys metadata, speakers, transcript
\* and notes, whose three lists are empty and whose metadata holds
\* exported_at, the time of the export.
EmptySessionExportsEmptyLists ==
    [][(ExportsFile /\ EmptySession) =>
          /\ export_file'.written = "all"
          /\ DOMAIN export_file'.data = {"metadata", "speakers", "transcript", "notes"}
          /\ DOMAIN export_file'.data.metadata = {"exported_at"}
          /\ export_file'.data.metadata.exported_at = TimeAt(wall_clock)
          /\ export_file'.data.speakers = <<>>
          /\ export_file'.data.transcript = <<>>
          /\ export_file'.data.notes = <<>>]_vars

\* An empty session was exported to a file
EmptySessionExported ==
    /\ EmptySession
    /\ export_calls = 1
    /\ export_file.written = "all"
    /\ export_file.data.speakers = <<>>
    /\ export_file.data.metadata.exported_at = BaseTime

\* C19: an export, whether the file is written, the dialog cancelled or the
\* write fails, leaves the speaker registry, the active speaker, the
\* transcript, the notes, the running flag and the stream start time as
\* they were; a failed write is reported in one message box after one
\* attempt to open the file.
ExportChangesNoStore ==
    /\ [][Exports =>
            /\ UNCHANGED << speakers, active_speaker, color_cycle, buttons,
                            panel_speaker, notifications >>
            /\ UNCHANGED << panelVars, notesVars >>
            /\ UNCHANGED << is_running, stream_start_wall_time, audio_stream,
                            audio_streams, vosk_engine, vosk_engines, workers,
                            init_threads, result_queue >>
            /\ write_attempts' \in {write_attempts, write_attempts + 1}]_vars
    /\ [][ExportFails =>
            /\ write_attempts' = write_attempts + 1
            /\ dialog'.shown = 1 - dialog.shown
            /\ export_file' \in {export_file, [written |-> "part"]}
            /\ export_calls' = export_calls + 1]_vars

\* A running session with a speaker, a sentence and a note was exported
\* and the write failed after the file was opened
RunningSessionExportFailed ==
    /\ is_running
    /\ stream_start_wall_time # NoTime
    /\ active_speaker # NoName
    /\ sentences_text # <<>>
    /\ notes_text # <<>>
    /\ dialog.title = "Export failed"
    /\ export_file.written = "part"
    /\ write_attempts = 1

(***************************************************************************)
(* Properties of set_active_speaker.                                       *)
(***************************************************************************)
\* set_active_speaker is called from outside in this step
SetActiveCalled == set_active_call' # set_active_call

\* C20: set_active(name) for a name that is not in the registry fails with
\* an unknown-speaker error reported to the caller, leaves the active
\* speaker unchanged and sends no notification; for a name in the registry
\* exactly that speaker is active afterwards.
SetActiveUnknownFails ==
    [][SetActiveCalled =>
          IF HasSpeaker(speakers, set_active_call'.name)
          THEN /\ active_speaker' = set_active_call'.name
               /\ set_active_call'.raised = ""
          ELSE /\ set_active_call'.raised = "UnknownSpeakerError"
               /\ UNCHANGED << active_speaker, notifications, panel_speaker >>]_vars

\* What the code does instead: the call for an unregistered name returns
\* normally and changes nothing; for a registered name that speaker is
\* active afterwards and the panel is notified of its name and color
SetActiveUnknownIgnored ==
    [][SetActiveCalled =>
          /\ set_active_call'.raised = ""
          /\ UNCHANGED << speakers, color_cycle, buttons, dialog >>
          /\ IF HasSpeaker(speakers, set_active_call'.name)
             THEN /\ active_speaker' = set_active_call'.name
                  /\ notifications' # notifications
                  /\ panel_speaker' =
                        [name |-> active_speaker',
                         color |-> get_speaker_color(speakers, active_speaker')]
             ELSE UNCHANGED << active_speaker, notifications, panel_speaker >>]_vars

\* set_active_speaker returned normally for a name that is not registered
\* while another speaker is active
UnknownNameAccepted ==
    /\ set_active_call.calls = 1
    /\ set_active_call.raised = ""
    /\ ~HasSpeaker(speakers, set_active_call.name)
    /\ active_speaker # NoName


(***************************************************************************)
(* Properties of the audio stream.                                         *)
(***************************************************************************)
\* C21: an exception raised while a frame is converted or enqueued never
\* leaves the capture callback: it is given to the stream's error handler
\* when the stream was constructed with one and is dropped when it was
\* not, the frame is not queued, and no stream's running state changes.
CallbackErrorsStayInside ==
    [][frames_captured' # frames_captured =>
          /\ UNCHANGED << callback_exception, audio_streams >>
          /\ audio_streams[last_callback'.stream].is_running
          /\ IF last_callback'.failed
             THEN /\ audio_queue' = audio_queue
                  /\ on_error_calls' =
                        IF audio_streams[last_callback'.stream].on_error
                        THEN on_error_calls + 1
                        ELSE on_error_calls
             ELSE /\ audio_queue' = audio_queue + 1
                  /\ on_error_calls' = on_error_calls]_vars

\* A frame failed on a stream with a handler and then one failed on a
\* stream without: the handler was called once, no exception escaped and
\* both streams still run
FrameErrorsHandledAndSwallowed ==
    /\ frames_captured = 2
    /\ on_error_calls = 1
    /\ audio_queue = 0
    /\ last_callback.failed
    /\ last_callback.stream \in 1..Len(audio_streams)
    /\ ~audio_streams[last_callback.stream].on_error
    /\ \A s \in 1..Len(audio_streams) : audio_streams[s].is_running
    /\ Len(audio_streams) = 2
    /\ callback_exception.name = ""


(***************************************************************************)
(* Properties of the result handler.                                       *)
(***************************************************************************)
\* The stream start time is recorded and the result has both relative times
TimesKnown(result) == stream_start_wall_time # NoTime /\ BothTimes(result)

\* C22: the segment made of a Final result carries wall-clock times exactly
\* when, as the result is handled, the stream start wall time is recorded
\* and the result has both its relative start and its relative end: then
\* they are the start time plus the relative times; in every other case
\* both times are absent and the timestamp label is "unknown".
SegmentTimedIffAllKnown ==
    [][(handled' # handled /\ JustHandled.type = "final") =>
          LET segment == widget_lines'[Len(widget_lines')]
          IN /\ Len(widget_lines') = Len(widget_lines) + 1
             /\ IF TimesKnown(JustHandled)
                THEN /\ segment.start_time =
                           stream_start_wall_time + JustHandled.start_time
                     /\ segment.end_time =
                           stream_start_wall_time + JustHandled.end_time
                     /\ last_timestamp_str' =
                           FmtTime(segment.start_time) \o <<"-">>
                           \o FmtTime(segment.end_time)
                ELSE /\ segment.start_time = NoTime
                     /\ segment.end_time = NoTime
                     /\ last_timestamp_str' = UnknownStr
             /\ sentences_text' =
                   sentences_text
                   \o LinePrefix(last_timestamp_str', panel_speaker.name)
                   \o JustHandled.text \o <<"\n">>]_vars

\* During a session a result with both times and then one with only its
\* start were handled: a timed segment and an "unknown" one
TimedAndHalfKnownHandled ==
    /\ stream_start_wall_time # NoTime
    /\ Len(handled) = 2
    /\ BothTimes(handled[1])
    /\ handled[2].type = "final"
    /\ handled[2].start_time # NoTime
    /\ handled[2].end_time = NoTime
    /\ Len(widget_lines) = 2
    /\ widget_lines[1].start_time = BaseTime
    /\ widget_lines[1].end_time = BaseTime + 1200
    /\ widget_lines[2].start_time = NoTime
    /\ last_timestamp_str = UnknownStr


(***************************************************************************)
(* Properties of a speaker edit.                                           *)
(***************************************************************************)
\* _edit_speaker ran in this step and found the speaker it was called for
EditSucceeded ==
    last_edit' # last_edit /\ HasSpeaker(speakers, last_edit'.old_name)

\* The name and the color an edit asks for
NewNameOf(e) == IF e.answer = NoName THEN e.old_name ELSE e.answer
NewColorOf(e) ==
    IF e.picked = NoColor THEN EntryOf(speakers, e.old_name).color ELSE e.picked

\* The edit renames its speaker to the name of another speaker
RenamesOntoExisting(e) ==
    NewNameOf(e) # e.old_name /\ HasSpeaker(speakers, NewNameOf(e))

\* C23: after a successful edit of a speaker (rename, recolor or both) the
\* edited speaker is the last entry of get_speakers and of
\* get_all_speakers, whatever its position was before and whether or not
\* the new name equals the old one or already existed.
EditedSpeakerIsLast ==
    [][EditSucceeded =>
          /\ speakers' # <<>>
          /\ get_speakers(speakers')[Len(speakers')] = NewNameOf(last_edit')
          /\ get_all_speakers(speakers')[Len(speakers')] =
                [name |-> NewNameOf(last_edit'),
                 color |-> NewColorOf(last_edit')]]_vars

\* The same, for edits that do not rename onto another speaker
EditedSpeakerIsLastUnlessMerged ==
    [][(EditSucceeded /\ ~RenamesOntoExisting(last_edit')) =>
          /\ speakers' # <<>>
          /\ get_speakers(speakers')[Len(speakers')] = NewNameOf(last_edit')
          /\ get_all_speakers(speakers')[Len(speakers')] =
                [name |-> NewNameOf(last_edit'),
                 color |-> NewColorOf(last_edit')]]_vars

\* The last of three speakers was renamed onto the first: the merged entry
\* is first of two
MergedEntryKeptItsPlace ==
    /\ add_count = 3
    /\ Len(speakers) = 2
    /\ last_edit.old_name = <<"C">>
    /\ last_edit.answer = <<"A">>
    /\ speakers[1].name = <<"A">>
    /\ speakers[1].button = <<"C">>
    /\ speakers[2].name = <<"B">>

\* C24: renaming a speaker to a different name that already exists
\* overwrites silently: the registry has one entry fewer, none for the old
\* name, and the one entry for the new name has the color chosen in the
\* edit and the edited speaker's button; the other entries are untouched,
\* no message box is shown and nothing is raised.
RenameOntoExistingOverwrites ==
    [][(EditSucceeded /\ RenamesOntoExisting(last_edit')) =>
          LET old_name == last_edit'.old_name
              new_name == NewNameOf(last_edit')
          IN /\ Len(speakers') = Len(speakers) - 1
             /\ ~HasSpeaker(speakers', old_name)
             /\ Cardinality({i \in 1..Len(speakers') :
                                speakers'[i].name = new_name}) = 1
             /\ EntryOf(speakers', new_name) =
                   [name |-> new_name, color |-> NewColorOf(last_edit'),
                    button |-> EntryOf(speakers, old_name).button]
             /\ \A i \in 1..Len(speakers) :
                   speakers[i].name \notin {old_name, new_name}
                   => /\ HasSpeaker(speakers', speakers[i].name)
                      /\ EntryOf(speakers', speakers[i].name) = speakers[i]
             /\ UNCHANGED << dialog, callback_exception >>]_vars

\* The second of three speakers was renamed onto the third with a new
\* color: two entries are left, the third's with the second's button
RenamedOntoExisting ==
    /\ add_count = 3
    /\ Len(speakers) = 2
    /\ last_edit.old_name = <<"B">>
    /\ last_edit.answer = <<"C">>
    /\ last_edit.picked = "#123456"
    /\ ~HasSpeaker(speakers, <<"B">>)
    /\ HasSpeaker(speakers, <<"C">>)
    /\ EntryOf(speakers, <<"C">>).button = <<"B">>
    /\ EntryOf(speakers, <<"C">>).color = "#123456"
    /\ dialog.title = ""


(***************************************************************************)
(* Properties of stopping the engine.                                      *)
(***************************************************************************)
\* The w-th engine thread was started and its engine's _running is false
WorkerOfStoppedEngine(w) ==
    /\ w \in 1..Len(workers)
    /\ workers[w].pc # "unstarted"
    /\ ~vosk_engines[workers[w].engine].running

\* The w-th engine thread has terminated, or its engine was started again
WorkerDoneOrRestarted(w) ==
    /\ w \in 1..Len(workers)
    /\ \/ workers[w].pc = "done"
       \/ vosk_engines[workers[w].engine].running

\* C25: once stop() has been called on a started engine, and unless the
\* engine is started again, its worker thread eventually leaves the loop
\* and terminates, also when no audio frame arrives any more; and the
\* main thread, waiting in stop() for the thread, eventually goes on.
StoppedWorkerTerminates ==
    /\ \A w \in 1..MaxStarts :
          WorkerOfStoppedEngine(w) ~> WorkerDoneOrRestarted(w)
    /\ (main_pc \in {"joining", "closing"}) ~> (main_pc \in {"idle", "destroyed"})

\* A session in which no frame was ever captured was stopped, stop()
\* returned and the worker has terminated
WorkerTerminatedWithoutFrames ==
    /\ frames_captured = 0
    /\ Len(workers) = 1
    /\ workers[1].pc = "done"
    /\ ~vosk_engines[workers[1].engine].running
    /\ main_pc = "idle"
    /\ ~is_running


(***************************************************************************)
(* Properties of the start request.                                        *)
(***************************************************************************)
\* A Start click is refused in this step: the message box of a failed
\* precondition is shown
StartRefused ==
    /\ dialog' # dialog
    /\ dialog'.title \in {"No speakers", "Vosk Model Missing"}

\* C26: a Start request that finds the speaker registry empty or the
\* selected model path missing starts nothing: no initialization thread is
\* launched, no audio stream or engine is created or started, the running
\* flag stays false and the stream start time stays as it is (absent,
\* unless an earlier request is still initializing).
RefusedStartStartsNothing ==
    [][StartRefused =>
          /\ UNCHANGED << init_threads, audio_stream, audio_streams, vosk_engine,
                          vosk_engines, workers, stream_start_wall_time >>
          /\ ~is_running /\ ~is_running'
          /\ NoneStarting => stream_start_wall_time' = NoTime]_vars

\* A Start was refused for a missing model before anything was started
StartRefusedForMissingModel ==
    /\ dialog.title = "Vosk Model Missing"
    /\ speakers # <<>>
    /\ active_speaker = <<"A">>
    /\ init_threads = <<>>
    /\ audio_stream = 0
    /\ vosk_engine = 0
    /\ ~is_running
    /\ stream_start_wall_time = NoTime


(***************************************************************************)
(* Properties of the model selection.                                      *)
(***************************************************************************)
\* C30: every session uses the model most recently selected: when a
\* session becomes running, the engine the application holds was
\* constructed from the model path selected at that time (models are
\* selected only between sessions in SpecModel).
SessionUsesSelectedModel ==
    [][(~is_running /\ is_running') =>
          /\ vosk_engine' # 0
          /\ vosk_engines'[vosk_engine'].model_path = model_path']_vars

\* The same, for the session that constructs the engine
FirstSessionUsesSelectedModel ==
    [][(~is_running /\ is_running' /\ Len(init_threads) = 1) =>
          /\ vosk_engine' # 0
          /\ vosk_engines'[vosk_engine'].model_path = model_path']_vars

\* A second session runs on the engine of the first, although another
\* model was selected in between
SessionRunsOnEarlierModel ==
    /\ is_running
    /\ Len(init_threads) = 2
    /\ NoneStarting
    /\ Len(vosk_engines) = 1
    /\ vosk_engines[vosk_engine].running
    /\ vosk_engines[vosk_engine].model_path = DEFAULT_VOSK_MODEL_PATH
    /\ model_path # DEFAULT_VOSK_MODEL_PATH


(***************************************************************************)
(* Properties of the flushed result.                                       *)
(***************************************************************************)
\* The position in `emitted` of the result the flush of the one worker
\* produced (0 when there is none): the worker has terminated, so the
\* result it made of the last answer of the recognizer is the last emitted
FlushedIndex ==
    IF /\ Len(workers) = 1
       /\ workers[1].pc = "done"
       /\ last_raw.kind = "final"
       /\ Strip(last_raw.text) # <<>>
    THEN Len(emitted)
    ELSE 0

\* C27: the final result the engine flushes when the session is stopped,
\* if it has word timings, is handled while the stream start time is still
\* recorded, and is appended to the transcript with wall-clock times, not
\* with the timestamp "unknown".
FlushedResultGetsWallTimes ==
    [][(/\ handled' # handled
        /\ Len(handled') = FlushedIndex
        /\ BothTimes(JustHandled)) =>
          /\ stream_start_wall_time # NoTime
          /\ widget_lines'[Len(widget_lines')].start_time # NoTime
          /\ widget_lines'[Len(widget_lines')].end_time # NoTime
          /\ last_timestamp_str' # UnknownStr]_vars

\* The flushed result had word timings and is in the transcript as
\* "unknown"
FlushedResultStampedUnknown ==
    /\ FlushedIndex = 1
    /\ handled = emitted
    /\ BothTimes(handled[1])
    /\ Len(widget_lines) = 1
    /\ widget_lines[1].start_time = NoTime
    /\ widget_lines[1].end_time = NoTime
    /\ last_timestamp_str = UnknownStr
    /\ stream_start_wall_time = NoTime
    /\ main_pc = "draining"


(***************************************************************************)
(* Properties of a stopped application.                                    *)
(***************************************************************************)
\* C28: once _stop_transcription has run (here from destroy, after which
\* no Start can be requested), the audio stream and the engine are not
\* running and the running flag is false in every later state, also when
\* an initialization started by an earlier Start click was still in flight.
StoppedStaysStopped ==
    main_pc = "destroyed" =>
       /\ ~is_running
       /\ audio_stream # 0 => ~audio_streams[audio_stream].is_running
       /\ vosk_engine # 0 => ~vosk_engines[vosk_engine].running

\* The frame was destroyed while init_worker was in flight, and the thread
\* has then started the audio stream and the engine and set the flag
SessionStartedAfterDestroy ==
    /\ main_pc = "destroyed"
    /\ Len(init_threads) = 1
    /\ init_threads[1] = "done"
    /\ is_running
    /\ stream_start_wall_time # NoTime
    /\ audio_stream # 0
    /\ audio_streams[audio_stream].is_running
    /\ vosk_engine # 0
    /\ vosk_engines[vosk_engine].running
    /\ \E w \in 1..Len(workers) : workers[w].pc \notin {"done", "unstarted"}


(***************************************************************************)
(* Properties of the audio stream's two fields.                            *)
(***************************************************************************)
\* C29: in every state of an AudioStream, outside its lock, _is_running is
\* true if and only if an InputStream is held in _stream; in particular a
\* start() that fails leaves no unclosed InputStream behind with the flag
\* false.
RunningIffStreamHeld ==
    \A s \in 1..Len(audio_streams) :
       audio_streams[s].is_running <=> audio_streams[s].stream

\* The same, in one direction: a running stream holds its InputStream
RunningStreamIsHeld ==
    \A s \in 1..Len(audio_streams) :
       audio_streams[s].is_running => audio_streams[s].stream

\* start() raised after the InputStream was stored: the stream is held
\* and the flag is false
UnclosedStreamLeftBehind ==
    /\ callback_exception.name = "PortAudioError"
    /\ Len(audio_streams) = 1
    /\ audio_streams[1].stream
    /\ ~audio_streams[1].is_running

=============================================================================
